---- MODULE Spec2Model ----
(***************************************************************************)
(* A model of the virgil native speech-capture backend.                    *)
(*                                                                         *)
(*   SpecApi       api.rs    transcribe_speech / process, fed by the cpal  *)
(*                           callback of utils.rs init_microphone          *)
(*   SpecLowPower  utils.rs  listen_low_power_mode / process_audio /       *)
(*                           listen_to_mic, fed by the same callback       *)
(*   SpecLegacy    legacy/state.rs  the global model and wake-word state   *)
(*   SpecLib       lib.rs    the cpal callback of listen_for_duration      *)
(*                                                                         *)
(* Audio is kept as a sequence of segments [id, lo, hi): the samples       *)
(* lo..hi-1 of the chunk that the id-th callback delivered.  Every sample  *)
(* therefore has an identity (chunk, offset), and buffers of 200 or 16200  *)
(* samples cost one record.  Buffers are kept in normal form (no empty     *)
(* segment, adjacent segments of one chunk merged), so two buffers are     *)
(* equal exactly when they hold the same samples in the same order.        *)
(***************************************************************************)
EXTENDS Integers, Sequences, FiniteSets, TLC

\* api.rs transcribe_speech and utils.rs listen_low_power_mode
VARIABLES
    listen_duration_ms,   \* argument of transcribe_speech / listen_low_power_mode
    mic_state,            \* the cpal stream: "built", "running", "panicked_full",
                          \* "panicked_closed", "dropped"
    next_chunk,           \* number of callbacks the audio thread has made so far
    input_audio,          \* the (input_audio_tx, input_audio_rx) channel's queue
    rx_dropped,           \* input_audio_rx has been dropped (channel closed)
    accumulated_audio,    \* the consumer's local `accumulated_audio`
    proc_pc,              \* the consumer task: "polling", "sleeping",
                          \* "panicked_split", "panicked_infer"
    received,             \* history: chunks try_recv has returned, in order
    windows,              \* history: buffers handed to inference, in order
    dart_posts            \* history: calls of send_text_to_dart, in order

\* utils.rs listen_low_power_mode
VARIABLES
    blocking_send_panics, \* whether blocking_send, called on a runtime worker
                          \* thread, is rejected by tokio's blocking-region guard
    duration_ch,          \* the queues of the mic_duration and process_duration channels
    listen_duration,      \* listen_to_mic's local `listen_duration` (ms)
    process_duration,     \* process_audio's local `process_duration` (ms)
    cur                   \* locals of the running on_accumulated call, or NoCall

\* legacy/state.rs
VARIABLES
    MODEL_STATE,          \* "None" or "Some"
    WAKE_WORDS,           \* the configured wake words
    legacy_call           \* the call that is returning and its result, or NoLegacyCall

\* lib.rs listen_for_duration
VARIABLES
    lib_stream,           \* "running" or "dropped"
    lib_channels,         \* config.channels
    lib_next,             \* number of callbacks made so far
    audio_data_ch,        \* queue of the (audio_data_tx, audio_data_rx) channel
    lib_sends             \* number of sends the last callback made

\* messages.rs send_message_to_rust / free_response
VARIABLES
    heap,                 \* the buffers serialize allocated, by address 1, 2, ..:
                          \* size, reported length, kind and who holds them
    msg_resp,             \* how the last send_message_to_rust call ended and
                          \* what it wrote to *resp_type and *resp_len
    AUDIO_DATA,           \* the samples update_audio_data stored
    ffi_call              \* the last free_response, free_rust_ptr or
                          \* init_context call: its arguments and its result

\* utils.rs / messages.rs serialize and deserialize
VARIABLES
    codec_pc,             \* "idle", "serialized", "serialize_failed",
                          \* "deserialized", "decoded_raw"
    codec_value,          \* the value passed to serialize, or NoValue
    codec_in,             \* the arguments of deserialize: expected type, null
                          \* pointer or not, the memory behind it, the length
    codec_result          \* what deserialize returned

\* inference calls in flight: legacy/state.rs called from several threads,
\* and the session of api.rs
VARIABLES
    model_lock,           \* the thread holding the MODEL_STATE mutex, or 0
    wake_words_lock,      \* the thread holding the WAKE_WORDS mutex, or 0
    thr,                  \* per calling thread: the function it is in and where
    session_pc,           \* transcribe_audio_data of the session: "window",
                          \* "detecting", "detected", "transcribing", "panicked"
    in_flight             \* per model handle, the inference calls that have
                          \* started and not yet returned

\* state.rs Virgil::listen
VARIABLES
    virgil_stream,        \* "none", "playing", "panicked" (callback unwound),
                          \* or "returned" (listen returned, stream dropped)
    virgil_calls,         \* data callbacks made so far
    text_ch,              \* mpsc::channel::<String>(): transcripts in flight
    virgil_transcript,    \* the caller's transcript string
    inference_on          \* contexts on which model.full has been invoked

\* lib.rs transcribe_speech, the blocking call
VARIABLES
    lib_pc,               \* "none", "called", "listening", "looping",
                          \* "returned", "panicked"
    lib_args,             \* the arguments: the bytes behind ctx, timeout_ms
    accumulator,          \* the channel accumulate_audio_data returns
    lib_transcript,       \* the local `transcript`
    lib_windows,          \* the text of each window processed, in order
    lib_ret               \* the returned buffer and *ctx_len_out

\* exaple.rs main: record, downmix, resample
VARIABLES
    ex_pc,                \* "collected", "mono", "resampled"
    collected,            \* the interleaved samples recorded
    ex_channels,          \* config.channels
    sample_rate,          \* config.sample_rate
    mono,                 \* stereo_to_mono's result
    resampled             \* resample_to_16k's result, and whether the
                          \* converter ran

\* the host of a session
VARIABLES
    stop_requested,       \* the host has asked the session to stop (teardown)
    api_start             \* the start-up of api.rs transcribe_speech: where
                          \* it is and which step failed

pipeVars == <<listen_duration_ms, mic_state, next_chunk, input_audio, rx_dropped,
              accumulated_audio, proc_pc, received, windows, dart_posts>>
lpVars == <<blocking_send_panics, duration_ch, listen_duration, process_duration, cur>>
legacyVars == <<MODEL_STATE, WAKE_WORDS, legacy_call>>
libVars == <<lib_stream, lib_channels, lib_next, audio_data_ch, lib_sends>>
msgVars == <<heap, msg_resp, AUDIO_DATA, ffi_call>>
codecVars == <<codec_pc, codec_value, codec_in, codec_result>>
inferVars == <<model_lock, wake_words_lock, thr, session_pc, in_flight>>
hostVars == <<stop_requested, api_start>>
exVars == <<ex_pc, collected, ex_channels, sample_rate, mono, resampled>>
callVars == <<lib_pc, lib_args, accumulator, lib_transcript, lib_windows, lib_ret>>
virgilVars == <<virgil_stream, virgil_calls, text_ch, virgil_transcript, inference_on>>

vars == <<pipeVars, lpVars, legacyVars, libVars, msgVars, codecVars, inferVars, hostVars, virgilVars, callVars, exVars>>

\* what the actions of one entry point leave alone
OutsideApi == <<lpVars, legacyVars, libVars, msgVars, codecVars, inferVars, hostVars, virgilVars, callVars, exVars>>
OutsideLowPower == <<legacyVars, libVars, msgVars, codecVars, inferVars, hostVars, virgilVars, callVars, exVars>>
OutsideLegacy == <<pipeVars, lpVars, libVars, msgVars, codecVars, inferVars, hostVars, virgilVars, callVars, exVars>>
OutsideLib == <<pipeVars, lpVars, legacyVars, msgVars, codecVars, inferVars, hostVars, virgilVars, callVars, exVars>>
OutsideMsg == <<pipeVars, lpVars, libVars, codecVars, inferVars, hostVars, virgilVars, callVars, exVars>>
OutsideCodec == <<pipeVars, lpVars, legacyVars, libVars, msgVars, inferVars, hostVars, virgilVars, callVars, exVars>>
OutsideInfer == <<pipeVars, lpVars, libVars, msgVars, codecVars, hostVars, virgilVars, callVars, exVars>>
OutsideHost == <<pipeVars, lpVars, legacyVars, libVars, msgVars, codecVars, inferVars, virgilVars, callVars, exVars>>
OutsideHost_NoPipe == <<lpVars, legacyVars, libVars, msgVars, codecVars, inferVars, virgilVars, callVars, exVars>>
OutsideVirgil == <<pipeVars, lpVars, legacyVars, libVars, msgVars, codecVars, inferVars, hostVars, callVars, exVars>>
OutsideCall == <<pipeVars, lpVars, legacyVars, msgVars, codecVars, inferVars, hostVars, virgilVars, exVars>>
OutsideExample == <<pipeVars, lpVars, legacyVars, libVars, msgVars, codecVars, inferVars, hostVars, virgilVars, callVars>>

----------------------------------------------------------------------------
(* Bounds of the model *)

\* number of callbacks the audio thread makes in a run
MaxChunks == 4

\* capacity of the audio channel.  The code passes EXPECTED_SAMPLE_RATE
\* (16000 messages); a full channel is reached the same way at any capacity.
AudioChannelCapacity == 2

----------------------------------------------------------------------------
(* Program constants *)

EXPECTED_SAMPLE_RATE == 16000

\* the `+ 200` of desired_num_samples
GuardSamples == 200

\* usize arithmetic wraps at this modulus in a build without overflow checks
\* (2^64 in the program; 2^30 here, far above every length of the model)
UsizeModulus == 1073741824

\* listen durations the host passes
ListenDurations == {500, 1000}

----------------------------------------------------------------------------
(* Strings: sequences of one-character strings (ASCII, so byte offsets and *)
(* character offsets coincide)                                             *)

UpperCase == <<"A", "B", "E", "H", "T", "W", "Y">>
LowerCase == <<"a", "b", "e", "h", "t", "w", "y">>

\* char::to_lowercase: an upper-case letter becomes its lower-case form,
\* every other character is kept
to_lowercase_char(c) ==
    IF \E k \in 1..Len(UpperCase) : UpperCase[k] = c
    THEN LowerCase[CHOOSE k \in 1..Len(UpperCase) : UpperCase[k] = c]
    ELSE c

\* str::to_lowercase
to_lowercase(s) == [i \in 1..Len(s) |-> to_lowercase_char(s[i])]

\* pat occurs in s at 0-based offset i
MatchesAt(s, pat, i) ==
    /\ i + Len(pat) <= Len(s)
    /\ \A j \in 1..Len(pat) : s[i + j] = pat[j]

\* Option::None of str::find
None == -1

\* str::find: the offset of the first occurrence of pat in s, scanning from
\* the left, or None
find(s, pat) ==
    LET RECURSIVE scan(_)
        scan(i) == IF i + Len(pat) > Len(s) THEN None
                   ELSE IF MatchesAt(s, pat, i) THEN i
                   ELSE scan(i + 1)
    IN scan(0)

\* str::contains
contains(s, pat) == find(s, pat) # None

\* str::trim: leading and trailing white space removed
RECURSIVE trim_start(_)
trim_start(s) == IF s # <<>> /\ Head(s) = " " THEN trim_start(Tail(s)) ELSE s

RECURSIVE trim_end(_)
trim_end(s) ==
    IF s # <<>> /\ s[Len(s)] = " " THEN trim_end(SubSeq(s, 1, Len(s) - 1)) ELSE s

trim(s) == trim_end(trim_start(s))

----------------------------------------------------------------------------
(* Audio buffers *)

AudioLen(buf) ==
    LET RECURSIVE sum(_)
        sum(i) == IF i = 0 THEN 0 ELSE sum(i - 1) + (buf[i].hi - buf[i].lo)
    IN sum(Len(buf))

\* &audio_data[a..b] of a chunk, as a buffer
Slice(chunk, a, b) ==
    IF a = b THEN <<>> ELSE <<[id |-> chunk.id, lo |-> a, hi |-> b]>>

\* a variant of extend_from_slice that puts the new samples first
extend_from_slice_Front(buf, more) == more \o buf

\* Vec::extend_from_slice: the samples of `more` after those of `buf`
extend_from_slice(buf, more) ==
    IF more = <<>> THEN buf
    ELSE IF buf = <<>> THEN more
    ELSE LET l == buf[Len(buf)]
             f == more[1]
         IN IF l.id = f.id /\ l.hi = f.lo
            THEN SubSeq(buf, 1, Len(buf) - 1)
                 \o <<[id |-> l.id, lo |-> l.lo, hi |-> f.hi]>>
                 \o Tail(more)
            ELSE buf \o more

\* the concatenation of a sequence of buffers
RECURSIVE ConcatAll(_)
ConcatAll(bufs) ==
    IF bufs = <<>> THEN <<>>
    ELSE extend_from_slice(ConcatAll(SubSeq(bufs, 1, Len(bufs) - 1)), bufs[Len(bufs)])

\* the samples of a sequence of chunks, in order
ChunksAudio(chunks) ==
    ConcatAll([i \in 1..Len(chunks) |-> Slice(chunks[i], 0, chunks[i].len)])

----------------------------------------------------------------------------
(* The accumulator's arithmetic (api.rs process, mvp.rs listen,            *)
(* utils.rs process_audio)                                                 *)

desired_num_samples_Rounded(duration_ms) ==
    ((duration_ms + 500) \div 1000) * EXPECTED_SAMPLE_RATE + GuardSamples

desired_num_samples(duration_ms) ==
    (duration_ms \div 1000) * EXPECTED_SAMPLE_RATE + GuardSamples

\* usize subtraction in a build without overflow checks
wrapping_sub(a, b) == IF a >= b THEN a - b ELSE a - b + UsizeModulus

\* `extra = num_samples - desired_num_samples`, under num_samples >= desired
Extra(accumulated_samples, samples_to_add, desired) ==
    wrapping_sub(accumulated_samples + samples_to_add, desired)

\* a variant of EndIdx that takes the whole chunk into the window
EndIdx_WholeChunk(accumulated_samples, samples_to_add, desired) == samples_to_add

\* `end_idx = samples_to_add - extra`
EndIdx(accumulated_samples, samples_to_add, desired) ==
    wrapping_sub(samples_to_add, Extra(accumulated_samples, samples_to_add, desired))

\* The split panics: with overflow checks `samples_to_add - extra` panics on
\* underflow; without them end_idx wraps and `&audio_data[0..end_idx]` panics
\* because end_idx exceeds the chunk's length.
SplitPanics(accumulated_samples, samples_to_add, desired) ==
    \/ Extra(accumulated_samples, samples_to_add, desired) > samples_to_add
    \/ EndIdx(accumulated_samples, samples_to_add, desired) > samples_to_add

----------------------------------------------------------------------------
(* The inference service and the wake-word check of utils.rs               *)

\* Context.wake_words of the session
CtxWakeWords == << <<"H", "e", "y">> >>

\* transcripts the inference service may return for a window
Transcripts == { <<>>, <<"h", "e", "y", " ", "u">>, <<"n", "o">> }

InferResults == {"ok", "err"}

\* utils.rs detect_wake_words, on the transcript the model returned
detect_wake_words(text, wake_words) ==
    LET transcript == to_lowercase(text)
        RECURSIVE loop(_)
        loop(i) == IF i > Len(wake_words) THEN FALSE
                   ELSE IF contains(transcript, to_lowercase(wake_words[i])) THEN TRUE
                   ELSE loop(i + 1)
    IN loop(1)

----------------------------------------------------------------------------
(* The audio thread                                                        *)

\* chunk lengths the driver delivers, relative to the window size
ChunkLens(desired) ==
    {desired \div 2, desired, 3 * (desired \div 2), 2 * desired + 1}

\* the listener task: mic.0.play().unwrap(), then sleep forever
MicPlay ==
    /\ mic_state = "built"
    /\ \/ mic_state' = "running"
       \/ mic_state' = "dropped"     \* play() failed: the task panics, the stream is dropped
    /\ UNCHANGED <<listen_duration_ms, next_chunk, input_audio, rx_dropped,
                   accumulated_audio, proc_pc, received, windows, dart_posts>>
    /\ UNCHANGED OutsideApi

\* init_microphone's input_stream_listener: sender.try_send(data.into()).unwrap()
InputStreamListener ==
    /\ mic_state = "running"
    /\ next_chunk < MaxChunks
    /\ \E len \in ChunkLens(desired_num_samples(listen_duration_ms)) :
        LET data == [id |-> next_chunk + 1, len |-> len] IN
        /\ next_chunk' = next_chunk + 1
        /\ IF rx_dropped
           THEN \* Err(TrySendError::Closed): unwrap panics
                /\ mic_state' = "panicked_closed"
                /\ UNCHANGED input_audio
           ELSE IF Len(input_audio) >= AudioChannelCapacity
           THEN \* Err(TrySendError::Full): unwrap panics
                /\ mic_state' = "panicked_full"
                /\ UNCHANGED input_audio
           ELSE /\ input_audio' = Append(input_audio, data)
                /\ UNCHANGED mic_state
    /\ UNCHANGED <<listen_duration_ms, rx_dropped, accumulated_audio, proc_pc,
                   received, windows, dart_posts>>
    /\ UNCHANGED OutsideApi

----------------------------------------------------------------------------
(* api.rs process                                                          *)

\* one iteration of `while let Ok(audio_data) = input_audio_rx.try_recv()`
Process ==
    /\ proc_pc = "polling"
    /\ input_audio # <<>>
    /\ LET audio_data == Head(input_audio)
           desired == desired_num_samples(listen_duration_ms)
           accumulated_samples == AudioLen(accumulated_audio)
           samples_to_add == audio_data.len
           num_samples == accumulated_samples + samples_to_add
           end_idx == EndIdx(accumulated_samples, samples_to_add, desired)
           window == extend_from_slice(accumulated_audio, Slice(audio_data, 0, end_idx))
       IN
       /\ received' = Append(received, audio_data)
       /\ IF num_samples < desired
          THEN /\ accumulated_audio' =
                      extend_from_slice(accumulated_audio,
                                        Slice(audio_data, 0, samples_to_add))
               /\ input_audio' = Tail(input_audio)
               /\ UNCHANGED <<proc_pc, rx_dropped, windows, dart_posts>>
          ELSE IF SplitPanics(accumulated_samples, samples_to_add, desired)
          THEN \* the task panics; its locals and input_audio_rx are dropped
               /\ proc_pc' = "panicked_split"
               /\ rx_dropped' = TRUE
               /\ input_audio' = <<>>
               /\ accumulated_audio' = <<>>
               /\ UNCHANGED <<windows, dart_posts>>
          ELSE \* transcribe_audio_data(&mut model, &accumulated_audio, &ctx.wake_words)
               /\ windows' = Append(windows, window)
               /\ \E transcript \in Transcripts, detect \in InferResults,
                     transcribe \in InferResults :
                    IF detect = "err" \/ transcribe = "err"
                    THEN \* Err(..).unwrap(): the task panics
                         /\ proc_pc' = "panicked_infer"
                         /\ rx_dropped' = TRUE
                         /\ input_audio' = <<>>
                         /\ accumulated_audio' = <<>>
                         /\ UNCHANGED dart_posts
                    ELSE \* send_text_to_dart(text), then clear and keep the rest
                         /\ dart_posts' = Append(dart_posts,
                                [window |-> Len(windows) + 1,
                                 text |-> transcript,
                                 detected |-> detect_wake_words(transcript, CtxWakeWords)])
                         /\ accumulated_audio' =
                                Slice(audio_data, end_idx, samples_to_add)
                         /\ input_audio' = Tail(input_audio)
                         /\ UNCHANGED <<proc_pc, rx_dropped>>
    /\ UNCHANGED <<listen_duration_ms, mic_state, next_chunk>>
    /\ UNCHANGED OutsideApi

\* try_recv returned Err: std::thread::sleep(listen_duration_ms)
ProcessSleep ==
    /\ proc_pc = "polling"
    /\ input_audio = <<>>
    /\ proc_pc' = "sleeping"
    /\ UNCHANGED <<listen_duration_ms, mic_state, next_chunk, input_audio, rx_dropped,
                   accumulated_audio, received, windows, dart_posts>>
    /\ UNCHANGED OutsideApi

\* the sleep ends; the outer loop polls again
ProcessWake ==
    /\ proc_pc = "sleeping"
    /\ proc_pc' = "polling"
    /\ UNCHANGED <<listen_duration_ms, mic_state, next_chunk, input_audio, rx_dropped,
                   accumulated_audio, received, windows, dart_posts>>
    /\ UNCHANGED OutsideApi

----------------------------------------------------------------------------
(* utils.rs listen_low_power_mode: process_audio, the on_accumulated       *)
(* closure and listen_to_mic                                               *)

\* capacity of mpsc::channel::<Duration>(1)
DurationChannelCapacity == 1

\* ACTIVE_LISTEN_DURATION, in ms
ActiveListenDurationMs == 3000

NoCall == [audio_data |-> [id |-> 0, len |-> 0], end_idx |-> 0, transcript |-> <<>>]

\* the blocking_send calls of the closure, in program order
SendPcs == {"send_mic_active", "send_process_active", "send_mic_reset",
            "send_process_reset"}

SendChannel(pc) ==
    IF pc \in {"send_mic_active", "send_mic_reset"} THEN "mic" ELSE "process"

SendValue(pc) ==
    IF pc \in {"send_mic_active", "send_process_active"}
    THEN ActiveListenDurationMs
    ELSE listen_duration_ms

\* one iteration of `while let Ok(audio_data) = input_audio_rx.try_recv()` of
\* process_audio, up to the closure's wake-word check
ProcessAudio ==
    /\ proc_pc = "polling"
    /\ input_audio # <<>>
    /\ LET audio_data == Head(input_audio)
           desired == desired_num_samples(listen_duration_ms)
           accumulated_samples == AudioLen(accumulated_audio)
           samples_to_add == audio_data.len
           num_samples == accumulated_samples + samples_to_add
           end_idx == EndIdx(accumulated_samples, samples_to_add, desired)
           window == extend_from_slice(accumulated_audio, Slice(audio_data, 0, end_idx))
       IN
       /\ received' = Append(received, audio_data)
       /\ IF num_samples < desired
          THEN /\ accumulated_audio' =
                      extend_from_slice(accumulated_audio,
                                        Slice(audio_data, 0, samples_to_add))
               /\ input_audio' = Tail(input_audio)
               /\ UNCHANGED <<proc_pc, rx_dropped, windows, cur>>
          ELSE IF SplitPanics(accumulated_samples, samples_to_add, desired)
          THEN /\ proc_pc' = "panicked_split"
               /\ rx_dropped' = TRUE
               /\ input_audio' = <<>>
               /\ accumulated_audio' = <<>>
               /\ UNCHANGED <<windows, cur>>
          ELSE \* on_accumulated(&audio_data): the closure is given the chunk
               /\ windows' = Append(windows, Slice(audio_data, 0, samples_to_add))
               /\ \E transcript \in Transcripts, detect \in InferResults :
                    IF detect = "err"
                    THEN \* detect_wake_words(..).unwrap(): the task panics
                         /\ proc_pc' = "panicked_infer"
                         /\ rx_dropped' = TRUE
                         /\ input_audio' = <<>>
                         /\ accumulated_audio' = <<>>
                         /\ UNCHANGED cur
                    ELSE IF ~detect_wake_words(transcript, CtxWakeWords)
                    THEN \* the closure returns; clear and keep the rest
                         /\ accumulated_audio' =
                                Slice(audio_data, end_idx, samples_to_add)
                         /\ input_audio' = Tail(input_audio)
                         /\ UNCHANGED <<proc_pc, rx_dropped, cur>>
                    ELSE \* wake word detected: go on to the first blocking_send
                         /\ proc_pc' = "send_mic_active"
                         /\ cur' = [audio_data |-> audio_data, end_idx |-> end_idx,
                                    transcript |-> transcript]
                         /\ accumulated_audio' = window
                         /\ input_audio' = Tail(input_audio)
                         /\ UNCHANGED rx_dropped
    /\ UNCHANGED <<listen_duration_ms, mic_state, next_chunk, dart_posts>>
    /\ UNCHANGED <<blocking_send_panics, duration_ch, listen_duration, process_duration>>
    /\ UNCHANGED OutsideLowPower

\* mic_duration_tx / process_duration_tx .blocking_send(..).unwrap() in the
\* closure.  The closure runs inside the task tokio::spawn started, on a
\* runtime worker thread: tokio's blocking_send panics there ("Cannot block
\* the current thread from within a runtime").  Where it is let through, it
\* waits until the channel has room.
ClosureBlockingSend ==
    /\ proc_pc \in SendPcs
    /\ IF blocking_send_panics
       THEN /\ proc_pc' = "panicked_blocking"
            /\ rx_dropped' = TRUE
            /\ input_audio' = <<>>
            /\ accumulated_audio' = <<>>
            /\ cur' = NoCall
            /\ UNCHANGED duration_ch
       ELSE /\ Len(duration_ch[SendChannel(proc_pc)]) < DurationChannelCapacity
            /\ duration_ch' = [duration_ch EXCEPT ![SendChannel(proc_pc)] =
                                   Append(@, SendValue(proc_pc))]
            /\ IF proc_pc = "send_process_reset"
               THEN \* the closure returns; clear and keep the rest
                    /\ accumulated_audio' =
                           Slice(cur.audio_data, cur.end_idx, cur.audio_data.len)
                    /\ proc_pc' = "polling"
                    /\ cur' = NoCall
               ELSE /\ proc_pc' = CASE proc_pc = "send_mic_active" -> "send_process_active"
                                    [] proc_pc = "send_process_active" -> "transcribe"
                                    [] proc_pc = "send_mic_reset" -> "send_process_reset"
                    /\ UNCHANGED <<accumulated_audio, cur>>
            /\ UNCHANGED <<rx_dropped, input_audio>>
    /\ UNCHANGED <<listen_duration_ms, mic_state, next_chunk, received, windows,
                   dart_posts>>
    /\ UNCHANGED <<blocking_send_panics, listen_duration, process_duration>>
    /\ UNCHANGED OutsideLowPower

\* transcribe(&mut model, params, audio_data).unwrap(); send_text_to_dart(text)
ClosureTranscribe ==
    /\ proc_pc = "transcribe"
    /\ \E result \in InferResults :
        IF result = "err"
        THEN /\ proc_pc' = "panicked_infer"
             /\ rx_dropped' = TRUE
             /\ input_audio' = <<>>
             /\ accumulated_audio' = <<>>
             /\ cur' = NoCall
             /\ UNCHANGED dart_posts
        ELSE /\ dart_posts' = Append(dart_posts,
                    [window |-> Len(windows), text |-> cur.transcript, detected |-> TRUE])
             /\ proc_pc' = "send_mic_reset"
             /\ UNCHANGED <<rx_dropped, input_audio, accumulated_audio, cur>>
    /\ UNCHANGED <<listen_duration_ms, mic_state, next_chunk, received, windows>>
    /\ UNCHANGED <<blocking_send_panics, duration_ch, listen_duration, process_duration>>
    /\ UNCHANGED OutsideLowPower

\* the inner loop ended: process_duration_rx.try_recv(), then
\* std::thread::sleep(process_duration)
ProcessAudioSleep ==
    /\ proc_pc = "polling"
    /\ input_audio = <<>>
    /\ IF duration_ch.process # <<>>
       THEN /\ process_duration' = Head(duration_ch.process)
            /\ duration_ch' = [duration_ch EXCEPT !.process = Tail(@)]
       ELSE UNCHANGED <<process_duration, duration_ch>>
    /\ proc_pc' = "sleeping"
    /\ UNCHANGED <<listen_duration_ms, mic_state, next_chunk, input_audio, rx_dropped,
                   accumulated_audio, received, windows, dart_posts>>
    /\ UNCHANGED <<blocking_send_panics, listen_duration, cur>>
    /\ UNCHANGED OutsideLowPower

\* listen_to_mic's loop, when duration_update_rx.try_recv() returns a value
ListenToMic ==
    /\ mic_state \in {"running", "panicked_full", "panicked_closed"}
    /\ duration_ch.mic # <<>>
    /\ listen_duration' = Head(duration_ch.mic)
    /\ duration_ch' = [duration_ch EXCEPT !.mic = Tail(@)]
    /\ UNCHANGED pipeVars
    /\ UNCHANGED <<blocking_send_panics, process_duration, cur>>
    /\ UNCHANGED OutsideLowPower

----------------------------------------------------------------------------
(* legacy/state.rs: the global model and wake-word state                   *)

\* longest raw transcript the inference service returns
MaxTranscriptLen == 3

\* longest wake-word list the host configures
MaxWakeWords == 2

TranscriptAlphabet == {"a", "A", "b", " "}

\* the text of the segments the model produced, concatenated
RawTranscripts ==
    UNION {[1..n -> TranscriptAlphabet] : n \in 0..MaxTranscriptLen}
    \cup { <<"h","e","l","l","o"," ","w","a","k","e"," ","w","o","r","d"," ","t","e","s","t">> }

WordPool ==
    { <<>>, <<"a">>, <<"B">>, <<"A", "b">>,
      <<"W", "a", "k", "e">>, <<"T", "e", "s", "t">> }

WordLists == UNION {[1..n -> WordPool] : n \in 0..MaxWakeWords}

NoDetection == [detected |-> FALSE, start_idx |-> 0, end_idx |-> 0]

NoLegacyCall ==
    [op |-> "none", audio_empty |-> TRUE, status |-> "ok", text |-> <<>>,
     detection |-> NoDetection, error |-> ""]

run_model_err_NoCheck(model_state, full) ==
    IF full = "err" THEN "WhisperError" ELSE ""

\* the Err run_model returns, "" when it returns Ok: the model's own error
\* when state.full fails, "Invalid model state" when no model is stored
run_model_err(model_state, full) ==
    IF model_state = "None" THEN "Invalid model state"
    ELSE IF full = "err" THEN "WhisperError"
    ELSE ""

\* run_model's Ok value for the segments' text: transcript.trim()
run_model(raw) == trim(raw)

\* a variant of legacy_detect_wake_words that tries the wake words last to first
legacy_detect_wake_words_Reversed(text, wake_words) ==
    LET transcript == to_lowercase(text)
        RECURSIVE loop(_)
        loop(i) ==
            IF i < 1 THEN NoDetection
            ELSE LET phrase == wake_words[i]
                     idx == find(transcript, to_lowercase(phrase))
                 IN IF idx # None
                    THEN [detected |-> TRUE, start_idx |-> idx, end_idx |-> Len(phrase)]
                    ELSE loop(i - 1)
    IN loop(Len(wake_words))

\* the loop of detect_wake_words over the wake words, on run_model's text
legacy_detect_wake_words(text, wake_words) ==
    LET transcript == to_lowercase(text)
        RECURSIVE loop(_)
        loop(i) ==
            IF i > Len(wake_words) THEN NoDetection
            ELSE LET phrase == wake_words[i]
                     idx == find(transcript, to_lowercase(phrase))
                 IN IF idx # None
                    THEN [detected |-> TRUE, start_idx |-> idx, end_idx |-> Len(phrase)]
                    ELSE loop(i + 1)
    IN loop(1)

load_model_stored_TakeOnErr(model_state, created) ==
    IF created THEN "Some" ELSE "None"

\* MODEL_STATE after load_model: `*model = Some(state)` when the context and
\* its state were created; otherwise `?` has returned before MODEL_STATE.lock()
load_model_stored(model_state, created) ==
    IF created THEN "Some" ELSE model_state

\* load_model(model_path)
LoadModel ==
    /\ legacy_call.op = "none"
    /\ \E created \in BOOLEAN :
        /\ MODEL_STATE' = load_model_stored(MODEL_STATE, created)
        /\ legacy_call' = [NoLegacyCall EXCEPT !.op = "load_model",
                               !.status = IF created THEN "ok" ELSE "err"]
    /\ UNCHANGED WAKE_WORDS
    /\ UNCHANGED OutsideLegacy

\* set_wake_words(words)
SetWakeWords ==
    /\ legacy_call.op = "none"
    /\ \E words \in WordLists :
        /\ WAKE_WORDS' = words
        /\ legacy_call' = [NoLegacyCall EXCEPT !.op = "set_wake_words"]
    /\ UNCHANGED MODEL_STATE
    /\ UNCHANGED OutsideLegacy

\* detect_wake_words(audio_data)
DetectWakeWords ==
    /\ legacy_call.op = "none"
    /\ \E audio_empty \in BOOLEAN, raw \in RawTranscripts, full \in InferResults :
        legacy_call' =
            IF audio_empty
            THEN [NoLegacyCall EXCEPT !.op = "detect_wake_words"]
            ELSE IF run_model_err(MODEL_STATE, full) # ""
            THEN [NoLegacyCall EXCEPT !.op = "detect_wake_words",
                      !.audio_empty = FALSE, !.status = "err",
                      !.error = run_model_err(MODEL_STATE, full)]
            ELSE [op |-> "detect_wake_words", audio_empty |-> FALSE, status |-> "ok",
                  text |-> run_model(raw),
                  detection |-> legacy_detect_wake_words(run_model(raw), WAKE_WORDS),
                  error |-> ""]
    /\ UNCHANGED <<MODEL_STATE, WAKE_WORDS>>
    /\ UNCHANGED OutsideLegacy

\* transcribe(audio_data)
Transcribe ==
    /\ legacy_call.op = "none"
    /\ \E audio_empty \in BOOLEAN, raw \in RawTranscripts, full \in InferResults :
        legacy_call' =
            IF audio_empty
            THEN [NoLegacyCall EXCEPT !.op = "transcribe"]
            ELSE IF run_model_err(MODEL_STATE, full) # ""
            THEN [NoLegacyCall EXCEPT !.op = "transcribe",
                      !.audio_empty = FALSE, !.status = "err",
                      !.error = run_model_err(MODEL_STATE, full)]
            ELSE [NoLegacyCall EXCEPT !.op = "transcribe", !.audio_empty = FALSE,
                      !.text = run_model(raw)]
    /\ UNCHANGED <<MODEL_STATE, WAKE_WORDS>>
    /\ UNCHANGED OutsideLegacy

\* the call's result has been handed to the caller
LegacyReturn ==
    /\ legacy_call.op # "none"
    /\ legacy_call' = NoLegacyCall
    /\ UNCHANGED <<MODEL_STATE, WAKE_WORDS>>
    /\ UNCHANGED OutsideLegacy

LegacyStart ==
    /\ MODEL_STATE = "None"
    /\ WAKE_WORDS = <<>>
    /\ legacy_call = NoLegacyCall

IdleLegacy == LegacyStart

NextLegacy ==
    \/ LoadModel
    \/ SetWakeWords
    \/ DetectWakeWords
    \/ Transcribe
    \/ LegacyReturn

----------------------------------------------------------------------------
(* lib.rs listen_for_duration: the stream's data callback                  *)

\* number of callbacks the audio thread makes while the stream lives
MaxLibCallbacks == 3

\* lengths of the interleaved buffers the driver delivers
LibDataLens == {1, 2, 3, 4}

\* data.chunks_exact(num_channels): the complete frames, in order
chunks_exact(data, num_channels) ==
    [k \in 1..(data.len \div num_channels) |->
        Slice(data, (k - 1) * num_channels, k * num_channels)]

\* the data callback; audio_data_rx outlives the stream, so send returns Ok
LibCallback ==
    /\ lib_stream = "running"
    /\ lib_next < MaxLibCallbacks
    /\ \E len \in LibDataLens :
        LET data == [id |-> lib_next + 1, len |-> len]
            frames == chunks_exact(data, lib_channels)
        IN IF lib_channels > 1
           THEN \* one sender.send per frame
                /\ audio_data_ch' = audio_data_ch \o frames
                /\ lib_sends' = Len(frames)
           ELSE /\ audio_data_ch' = Append(audio_data_ch, Slice(data, 0, len))
                /\ lib_sends' = 1
    /\ lib_next' = lib_next + 1
    /\ UNCHANGED <<lib_stream, lib_channels>>
    /\ UNCHANGED OutsideLib

\* the sleep ends, listen_for_duration returns and drops the stream
LibListenEnd ==
    /\ lib_stream = "running"
    /\ lib_stream' = "dropped"
    /\ UNCHANGED <<lib_channels, lib_next, audio_data_ch, lib_sends>>
    /\ UNCHANGED OutsideLib

LibStart ==
    /\ lib_stream = "running"
    /\ lib_channels \in {1, 2}
    /\ lib_next = 0
    /\ audio_data_ch = <<>>
    /\ lib_sends = 0

IdleLib ==
    /\ lib_stream = "dropped"
    /\ lib_channels = 1
    /\ lib_next = 0
    /\ audio_data_ch = <<>>
    /\ lib_sends = 0

NextLib ==
    \/ LibCallback
    \/ LibListenEnd

----------------------------------------------------------------------------
(* The wire format: bincode::config::standard().with_fixed_int_encoding()  *)
(* (little endian, fixed-width integers, u64 length prefixes).  A byte is  *)
(* a number in 0..255; a String is the sequence of its UTF-8 bytes.        *)

\* longest string of the values that are encoded
MaxStrLen == 1

\* longest list (Vec<String>, Vec<f32>) of the values that are encoded
MaxVecLen == 2

\* u64::to_le_bytes, for n < 2^30
u64_to_le_bytes(n) ==
    <<n % 256, (n \div 256) % 256, (n \div 65536) % 256, n \div 16777216, 0, 0, 0, 0>>

RECURSIVE Flatten(_)
Flatten(seqs) == IF seqs = <<>> THEN <<>> ELSE Head(seqs) \o Flatten(Tail(seqs))

\* Encode for String: the length, then the bytes
encode_string(s) == u64_to_le_bytes(Len(s)) \o s

\* Encode for Vec<String>: the number of elements, then the elements in order
encode_vec_string(v) ==
    u64_to_le_bytes(Len(v)) \o Flatten([i \in 1..Len(v) |-> encode_string(v[i])])

\* Encode for Vec<f32>: the number of elements, then 4 bytes for each
encode_vec_f32(v) == u64_to_le_bytes(Len(v)) \o Flatten(v)

\* Encode for bool
encode_bool(b) == IF b THEN <<1>> ELSE <<0>>

\* Encode for WakeWordDetection (derived): the fields in declaration order
encode_detection(d) ==
    encode_bool(d.detected) \o u64_to_le_bytes(d.start_idx) \o u64_to_le_bytes(d.end_idx)

\* Encode for Context (derived): the fields in declaration order
encode_context(c) ==
    encode_string(c.model_path) \o encode_vec_string(c.wake_words)
        \o encode_string(c.transcript)

\* The encoding of a value.  The newtype structs LoadModel, DebugMessage,
\* TextResponse, ErrorResponse (String), SetWakeWords (Vec<String>),
\* UpdateAudioData (Vec<f32>) and WakeWordResponse (WakeWordDetection) encode
\* as their field.
encode(v) ==
    CASE v.t = "String" -> encode_string(v.s)
      [] v.t = "VecString" -> encode_vec_string(v.v)
      [] v.t = "VecF32" -> encode_vec_f32(v.v)
      [] v.t = "Detection" -> encode_detection(v.d)
      [] v.t = "Context" -> encode_context(v.c)

\* results of the decoder: a value and the reader's position, an error, or a
\* panic inside the decoder
DecOk(val, pos) == [st |-> "ok", val |-> val, pos |-> pos]
DecErr(pos) == [st |-> "err", val |-> <<>>, pos |-> pos]
DecPanic(pos) == [st |-> "panic", val |-> <<>>, pos |-> pos]

\* u64 from 8 bytes at pos.  `val` is exact below 2^24 and 2^24 above;
\* `top` is the most significant byte.
decode_u64(b, pos) ==
    IF pos + 8 > Len(b) THEN [st |-> "err", val |-> 0, pos |-> pos, top |-> 0]
    ELSE [st |-> "ok",
          val |-> IF \E i \in 4..8 : b[pos + i] # 0
                  THEN 16777216
                  ELSE b[pos + 1] + 256 * b[pos + 2] + 65536 * b[pos + 3],
          pos |-> pos + 8,
          top |-> b[pos + 8]]

\* the bytes of a String whose decoded length is n (a decode_u64 result)
string_of_len(b, n) ==
    IF n.st # "ok" THEN DecErr(n.pos)
    ELSE IF n.top >= 128 THEN DecPanic(n.pos)
    ELSE IF n.pos + n.val > Len(b) THEN DecErr(n.pos)
    ELSE IF \E i \in (n.pos + 1)..(n.pos + n.val) : b[i] >= 128
    THEN DecErr(n.pos + n.val)
    ELSE DecOk(SubSeq(b, n.pos + 1, n.pos + n.val), n.pos + n.val)

\* Decode for String: Vec<u8>, then String::from_utf8.  The Vec<u8> is
\* allocated at the decoded length before the bytes are read: a length above
\* isize::MAX panics with "capacity overflow".  (The strings of the model are
\* ASCII; 255 occurs in no UTF-8 string.)
decode_string(b, pos) == string_of_len(b, decode_u64(b, pos))

RECURSIVE decode_strings(_, _, _, _)
RECURSIVE strings_push(_, _, _, _)

\* a variant of strings_push that puts the element at the front
strings_push_Front(b, count, acc, e) ==
    IF e.st # "ok" THEN e ELSE decode_strings(b, e.pos, count - 1, <<e.val>> \o acc)

\* vec.push(T::decode(decoder)?) for the element result e
strings_push(b, count, acc, e) ==
    IF e.st # "ok" THEN e ELSE decode_strings(b, e.pos, count - 1, Append(acc, e.val))

\* `count` elements, each read by decode_string, from pos
decode_strings(b, pos, count, acc) ==
    IF count = 0 THEN DecOk(acc, pos)
    ELSE strings_push(b, count, acc, decode_string(b, pos))

\* the elements of a Vec<String> whose decoded length is n
vec_string_of_len(b, n) ==
    IF n.st # "ok" THEN DecErr(n.pos)
    ELSE IF n.top >= 128 \/ n.val > Len(b) THEN DecErr(n.pos)
    ELSE decode_strings(b, n.pos, n.val, <<>>)

\* Decode for Vec<String>.  A count whose size in bytes overflows usize is
\* refused (LimitExceeded); the elements are then read one by one, and the
\* read fails where the input ends (every element takes 8 bytes or more).
decode_vec_string(b, pos) == vec_string_of_len(b, decode_u64(b, pos))

\* the elements of a Vec<f32> whose decoded length is n
vec_f32_of_len(b, n) ==
    IF n.st # "ok" THEN DecErr(n.pos)
    ELSE IF n.top >= 128 \/ n.pos + 4 * n.val > Len(b) THEN DecErr(n.pos)
    ELSE DecOk([i \in 1..n.val |-> SubSeq(b, n.pos + 4 * (i - 1) + 1, n.pos + 4 * i)],
               n.pos + 4 * n.val)

\* Decode for Vec<f32>
decode_vec_f32(b, pos) == vec_f32_of_len(b, decode_u64(b, pos))

\* Decode for bool: 0 or 1, any other byte is an error
decode_bool(b, pos) ==
    IF pos + 1 > Len(b) THEN DecErr(pos)
    ELSE IF b[pos + 1] \notin {0, 1} THEN DecErr(pos + 1)
    ELSE DecOk(b[pos + 1] = 1, pos + 1)

\* a derived Decode: the next field, read with result r, is set in the
\* struct decoded so far (result so_far)
field(so_far, name, r) ==
    IF so_far.st # "ok" THEN so_far
    ELSE IF r.st # "ok" THEN [st |-> r.st, val |-> <<>>, pos |-> r.pos]
    ELSE DecOk(name :> r.val @@ so_far.val, r.pos)

\* the position at which the next field is read
next_pos(so_far) == so_far.pos

\* Decode for WakeWordDetection (derived)
detection_1(b, pos) == field(DecOk(<<>>, pos), "detected", decode_bool(b, pos))
detection_2(b, d) == field(d, "start_idx", decode_u64(b, next_pos(d)))
detection_3(b, d) == field(d, "end_idx", decode_u64(b, next_pos(d)))
decode_detection(b, pos) == detection_3(b, detection_2(b, detection_1(b, pos)))

\* Decode for Context (derived)
context_1(b, pos) == field(DecOk(<<>>, pos), "model_path", decode_string(b, pos))
context_2(b, c) == field(c, "wake_words", decode_vec_string(b, next_pos(c)))
context_3(b, c) == field(c, "transcript", decode_string(b, next_pos(c)))
decode_context(b, pos) == context_3(b, context_2(b, context_1(b, pos)))

\* the decoded T as a value of the model
tagged(t, name, r) ==
    IF r.st = "ok" THEN DecOk(name :> r.val @@ [t |-> t], r.pos)
    ELSE [st |-> r.st, val |-> <<>>, pos |-> r.pos]

\* decode_from_slice::<T>(slice, config)
decode_from_slice(t, slice) ==
    CASE t = "String" -> tagged(t, "s", decode_string(slice, 0))
      [] t = "VecString" -> tagged(t, "v", decode_vec_string(slice, 0))
      [] t = "VecF32" -> tagged(t, "v", decode_vec_f32(slice, 0))
      [] t = "Detection" -> tagged(t, "d", decode_detection(slice, 0))
      [] t = "Context" -> tagged(t, "c", decode_context(slice, 0))

\* slice_from_raw_parts(ptr, len).as_ref(): the first len bytes behind ptr
raw_slice(mem, len) == SubSeq(mem, 1, len)

\* deserialize::<T>(ptr, len).  `mem` is the memory behind a non-null ptr.
deserialize(t, null, mem, len) ==
    IF null THEN DecErr(0) ELSE decode_from_slice(t, raw_slice(mem, len))

----------------------------------------------------------------------------
(* messages.rs: send_message_to_rust and free_response                     *)

\* number of send_message_to_rust calls the host makes
MaxMsgCalls == 3

\* size_of::<String>() on a 64-bit target: pointer, capacity, length
SizeOfString == 24

\* size_of::<WakeWordDetection>() on a 64-bit target: two usize and a bool,
\* padded to the alignment of usize
SizeOfWakeWordDetection == 24

\* impl Into<u8> for ResponseType
ResponseTypeText == 0
ResponseTypeWakeWord == 1
ResponseTypeError == 2

\* Response::byte_len of TextResponse and ErrorResponse
text_byte_len(text) == Len(text) + SizeOfString

\* Response::byte_len of WakeWordResponse
wake_word_byte_len == SizeOfWakeWordDetection + SizeOfWakeWordDetection

\* the strings the host sends ("", "a", "B") and their characters
MsgStrings == {<<>>, <<97>>, <<66>>}

from_utf8(bytes) == [i \in 1..Len(bytes) |-> IF bytes[i] = 97 THEN "a" ELSE "B"]

\* the payloads the host passes with a message: encodings of values, each
\* also with its last byte missing, an empty payload, and a length prefix of
\* 2^64 - 1 with nothing after it
MsgValues ==
    {[t |-> "String", s |-> s] : s \in MsgStrings}
    \cup {[t |-> "VecString", v |-> v] : v \in {<<>>, <<<<97>>>>, <<<<66>>, <<97>>>>}}
    \cup {[t |-> "VecF32", v |-> v] : v \in {<<>>, <<<<0, 0, 128, 63>>>>}}

MsgPayloads ==
    {encode(v) : v \in MsgValues}
    \cup {SubSeq(encode(v), 1, Len(encode(v)) - 1) : v \in MsgValues}
    \cup {<<>>, <<255, 255, 255, 255, 255, 255, 255, 255>>}

\* the payload type of each message type (From<u8> for MessageType); the
\* unit messages DetectWakeWords (3) and Transcribe (4) have none
PayloadType(msg_type) ==
    CASE msg_type = 0 -> "String"
      [] msg_type = 1 -> "VecString"
      [] msg_type = 2 -> "VecF32"
      [] msg_type = 5 -> "String"
      [] OTHER -> "none"

\* the texts of the errors: the decoder's and the model's
ErrorTexts == { <<85, 110, 101, 120, 112, 101, 99, 116, 101, 100, 69, 110, 100>>,
                <<73, 110, 118, 97, 108, 105, 100, 32, 109, 111, 100, 101, 108, 32, 115, 116, 97, 116, 101>> }

RECURSIVE Digits(_)
Digits(n) == IF n < 10 THEN <<48 + n>> ELSE Digits(n \div 10) \o <<48 + (n % 10)>>

\* [String]::join(", ")
RECURSIVE join(_)
join(words) ==
    IF words = <<>> THEN <<>>
    ELSE IF Len(words) = 1 THEN words[1]
    ELSE words[1] \o <<44, 32>> \o join(Tail(words))

\* the format! texts of the responses
ModelPathText(model_path) == <<77, 111, 100, 101, 108, 32, 112, 97, 116, 104, 32, 115, 101, 116, 32, 116, 111, 58, 32>> \o model_path
WakeWordsText(words) == <<87, 97, 107, 101, 32, 119, 111, 114, 100, 115, 32, 115, 101, 116, 32, 116, 111, 58, 32, 91>> \o join(words) \o <<93>>
AudioDataText(n) == <<65, 117, 100, 105, 111, 32, 100, 97, 116, 97, 32, 117, 112, 100, 97, 116, 101, 100, 32, 119, 105, 116, 104, 32>> \o Digits(n) \o <<32, 115, 97, 109, 112, 108, 101, 115>>
DebugText(text) == <<68, 101, 98, 117, 103, 58, 32, 39>> \o text \o <<39>>

\* `failed` tells what failed in the call: "decode", "operation",
\* "msg_type", or "nothing"
NoResp ==
    [outcome |-> "none", failed |-> "nothing", ptr |-> 0, resp_type |-> 0, resp_len |-> 0]

\* no free_response, free_rust_ptr or init_context call was the last call
NoFfiCall ==
    [fn |-> "none", outcome |-> "none", ptr |-> 0, len |-> 0, buf |-> <<>>,
     model_path |-> <<>>, wake_words |-> <<>>, msg_type |-> 0, nulls |-> {}]

\* the msg_type bytes the host passes: the six message types and a byte
\* that names none
MsgTypes == 0..6

\* which of msg_ptr, resp_type and resp_len the host passes as null
NullArgs == { {}, {"msg_ptr"}, {"resp_type"}, {"resp_len"} }

\* impl From<u8> for MessageType
From_u8(value) ==
    CASE value = 0 -> "LoadModel"
      [] value = 1 -> "SetWakeWords"
      [] value = 2 -> "UpdateAudioData"
      [] value = 3 -> "DetectWakeWords"
      [] value = 4 -> "Transcribe"
      [] value = 5 -> "Debug"
      [] OTHER -> "unreachable"

any_null_OnlyMsgPtr(nulls) == "msg_ptr" \in nulls

\* `msg_ptr.is_null() || resp_type.is_null() || resp_len.is_null()`
any_null(nulls) == nulls # {}

\* the record of a send_message_to_rust call
MessageCall(msg_type, nulls) ==
    [NoFfiCall EXCEPT !.fn = "send_message_to_rust", !.msg_type = msg_type,
                      !.nulls = nulls]

\* serialize(value, len_ptr): a zeroed buffer of byte_len bytes is allocated,
\* the encoding is written at its start and its length goes to *len_ptr
Allocation(kind, byte_len, encoding, holder) ==
    [kind |-> kind, size |-> byte_len, written |-> Len(encoding), holder |-> holder]

\* serialize of a TextResponse, returned to the host
SerializeText(h, text, resp_type) ==
    [heap |-> Append(h, Allocation("Text", text_byte_len(text),
                                   encode_string(text), "host")),
     resp |-> [outcome |-> "returned", failed |-> "nothing", ptr |-> Len(h) + 1, resp_type |-> resp_type,
               resp_len |-> Len(encode_string(text))]]

\* serialize of a WakeWordResponse, returned to the host
SerializeWakeWord(h, detection) ==
    [heap |-> Append(h, Allocation("WakeWord", wake_word_byte_len,
                                   encode_detection(detection), "host")),
     resp |-> [outcome |-> "returned", failed |-> "nothing", ptr |-> Len(h) + 1,
               resp_type |-> ResponseTypeWakeWord,
               resp_len |-> Len(encode_detection(detection))]]

\* `.map_err(|e| return rust_error(e, resp_type, resp_len)).unwrap()` on an
\* Err: the closure's `return` leaves the closure, so rust_error's pointer
\* becomes the Err value and unwrap panics.  rust_error has then written
\* *resp_type and *resp_len and allocated the ErrorResponse, which nobody holds.
RustErrorUnwrap(h, details, failed) ==
    [heap |-> Append(h, Allocation("Error", text_byte_len(details),
                                   encode_string(details), "nobody")),
     resp |-> [outcome |-> "panicked", failed |-> failed, ptr |-> 0,
               resp_type |-> ResponseTypeError,
               resp_len |-> Len(encode_string(details))]]

\* a panic before anything is allocated or written
Panicked(h, failed) ==
    [heap |-> h, resp |-> [NoResp EXCEPT !.outcome = "panicked", !.failed = failed]]

\* the text of the segments the model produces for the stored audio
MsgTranscripts == { <<"a">>, <<" ", "b">>, <<>> }

\* String::as_bytes of a transcript
as_bytes(text) ==
    [i \in 1..Len(text) |->
        CASE text[i] = "a" -> 97 [] text[i] = "A" -> 65 [] text[i] = "b" -> 98
          [] text[i] = "B" -> 66 [] OTHER -> 32]

\* the call ends with result r (the heap and what the host sees)
MsgOutcome(r) == heap' = r.heap /\ msg_resp' = r.resp

\* the two `match kind` of send_message_to_rust for a message with a
\* payload; `message` is the result of deserialize
RespondToMessage(msg_type, message) ==
    IF message.st = "panic"
    THEN /\ MsgOutcome(Panicked(heap, "decode"))
         /\ UNCHANGED <<MODEL_STATE, WAKE_WORDS, AUDIO_DATA>>
    ELSE IF message.st = "err"
    THEN /\ \E details \in ErrorTexts :
                MsgOutcome(RustErrorUnwrap(heap, details, "decode"))
         /\ UNCHANGED <<MODEL_STATE, WAKE_WORDS, AUDIO_DATA>>
    ELSE CASE msg_type = 0 ->
              \* load_model(model_path)
              \E created \in BOOLEAN :
                IF created
                THEN /\ MODEL_STATE' = "Some"
                     /\ MsgOutcome(SerializeText(heap,
                            ModelPathText(message.val.s), ResponseTypeText))
                     /\ UNCHANGED <<WAKE_WORDS, AUDIO_DATA>>
                ELSE /\ \E details \in ErrorTexts :
                            MsgOutcome(RustErrorUnwrap(heap, details, "operation"))
                     /\ UNCHANGED <<MODEL_STATE, WAKE_WORDS, AUDIO_DATA>>
           [] msg_type = 1 ->
              \* set_wake_words(&message.0); *resp_type = WakeWord
              /\ WAKE_WORDS' = [i \in 1..Len(message.val.v) |->
                                    from_utf8(message.val.v[i])]
              /\ MsgOutcome(SerializeText(heap, WakeWordsText(message.val.v),
                                          ResponseTypeWakeWord))
              /\ UNCHANGED <<MODEL_STATE, AUDIO_DATA>>
           [] msg_type = 2 ->
              \* update_audio_data(new_data)
              /\ AUDIO_DATA' = message.val.v
              /\ MsgOutcome(SerializeText(heap,
                     AudioDataText(Len(message.val.v)), ResponseTypeText))
              /\ UNCHANGED <<MODEL_STATE, WAKE_WORDS>>
           [] msg_type = 5 ->
              /\ MsgOutcome(SerializeText(heap, DebugText(message.val.s),
                                          ResponseTypeText))
              /\ UNCHANGED <<MODEL_STATE, WAKE_WORDS, AUDIO_DATA>>

\* send_message_to_rust(msg_type, msg_ptr, msg_len, resp_type, resp_len)
SendMessageToRust ==
    /\ msg_resp.outcome # "panicked"
    /\ Len(heap) < MaxMsgCalls
    /\ \E msg_type \in MsgTypes, nulls \in NullArgs :
        /\ ffi_call' = MessageCall(msg_type, nulls)
        /\ IF any_null(nulls)
           THEN \* a null msg_ptr, resp_type or resp_len: null is returned
                /\ MsgOutcome([heap |-> heap, resp |-> [NoResp EXCEPT !.outcome = "null"]])
                /\ UNCHANGED <<MODEL_STATE, WAKE_WORDS, AUDIO_DATA>>
           ELSE IF From_u8(msg_type) = "unreachable"
           THEN \* `let kind: MessageType = msg_type.into()`: unreachable!()
                /\ MsgOutcome(Panicked(heap, "msg_type"))
                /\ UNCHANGED <<MODEL_STATE, WAKE_WORDS, AUDIO_DATA>>
           ELSE IF From_u8(msg_type) \notin {"DetectWakeWords", "Transcribe"}
           THEN \* LoadModel, SetWakeWords, UpdateAudioData, Debug: the payload is decoded
                \E payload \in MsgPayloads :
                    RespondToMessage(msg_type,
                        deserialize(PayloadType(msg_type), FALSE, payload, Len(payload)))
           ELSE \* DetectWakeWords, Transcribe: detect_wake_words() / transcribe()
                /\ \E raw \in MsgTranscripts, full \in InferResults :
                      IF AUDIO_DATA # <<>> /\ (MODEL_STATE = "None" \/ full = "err")
                      THEN \E details \in ErrorTexts :
                              MsgOutcome(RustErrorUnwrap(heap, details, "operation"))
                      ELSE LET text == IF AUDIO_DATA = <<>> THEN <<>> ELSE run_model(raw)
                               detection ==
                                   IF AUDIO_DATA = <<>> THEN NoDetection
                                   ELSE legacy_detect_wake_words(text, WAKE_WORDS)
                           IN IF From_u8(msg_type) = "DetectWakeWords"
                              THEN MsgOutcome(SerializeWakeWord(heap, detection))
                              ELSE MsgOutcome(SerializeText(heap, as_bytes(text),
                                                            ResponseTypeText))
                /\ UNCHANGED <<MODEL_STATE, WAKE_WORDS, AUDIO_DATA>>
    /\ UNCHANGED legacy_call
    /\ UNCHANGED OutsideMsg

\* lengths the host passes along with a null pointer
NullLens == {0, 8}

\* the record of a free call; ptr 0 is the null pointer
FreeCall(fn, ptr, len) ==
    [NoFfiCall EXCEPT !.fn = fn, !.outcome = "returned", !.ptr = ptr, !.len = len]

from_raw_drop_All(h, ptr, len) ==
    [q \in 1..Len(h) |-> [h[q] EXCEPT !.holder = "freed"]]

\* `let _ = Box::from_raw(slice_from_raw_parts_mut(ptr, len))`: the boxed
\* slice behind ptr is dropped, its memory released as len bytes
from_raw_drop(h, ptr, len) ==
    [h EXCEPT ![ptr].holder =
        IF len = h[ptr].size THEN "freed" ELSE "freed_wrong_size"]

\* the body shared by free_response and free_rust_ptr.  The host passes a
\* null pointer with any length, or a pointer it holds with the length the
\* native side reported for it.
FreeCalled(fn) ==
    \/ \E len \in NullLens :
          /\ ffi_call' = FreeCall(fn, 0, len)
          /\ heap' = heap
    \/ \E ptr \in 1..Len(heap) :
          /\ heap[ptr].holder = "host"
          /\ ffi_call' = FreeCall(fn, ptr, heap[ptr].written)
          /\ heap' = from_raw_drop(heap, ptr, heap[ptr].written)

\* free_response(ptr, len)
FreeResponse ==
    /\ msg_resp.outcome # "panicked"
    /\ ffi_call.outcome # "panicked"
    /\ FreeCalled("free_response")
    /\ UNCHANGED <<msg_resp, AUDIO_DATA>>
    /\ UNCHANGED legacyVars
    /\ UNCHANGED OutsideMsg

MsgStart ==
    /\ heap = <<>>
    /\ msg_resp = NoResp
    /\ AUDIO_DATA = <<>>
    /\ ffi_call = NoFfiCall

IdleMsg == MsgStart

NextMsg ==
    \/ SendMessageToRust
    \/ FreeResponse

----------------------------------------------------------------------------
(* serialize and deserialize (utils.rs, legacy/utils.rs, messages.rs) on   *)
(* the values that cross the boundary                                      *)

CodecStrings == UNION {[1..n -> {97, 66}] : n \in 0..MaxStrLen}

CodecStringLists == UNION {[1..n -> CodecStrings] : n \in 0..MaxVecLen}

\* f32::to_le_bytes of 0.0 and 1.0
CodecSamples == { <<0, 0, 0, 0>>, <<0, 0, 128, 63>> }

CodecSampleLists == UNION {[1..n -> CodecSamples] : n \in 0..MaxVecLen}

CodecDetections == [detected : BOOLEAN, start_idx : 0..MaxStrLen, end_idx : {0, 300}]

CodecContexts ==
    [model_path : CodecStrings, wake_words : CodecStringLists,
     transcript : {<<>>, <<97>>}]

\* the responses (TextResponse, ErrorResponse, WakeWordResponse), serialized
\* by messages.rs
ResponseValues ==
    {[t |-> "String", s |-> s] : s \in CodecStrings}
    \cup {[t |-> "Detection", d |-> d] : d \in CodecDetections}

\* the messages (LoadModel, DebugMessage, SetWakeWords, UpdateAudioData) and
\* the Context, serialized by utils.rs
MessageValues ==
    {[t |-> "String", s |-> s] : s \in CodecStrings}
    \cup {[t |-> "VecString", v |-> v] : v \in CodecStringLists}
    \cup {[t |-> "VecF32", v |-> v] : v \in CodecSampleLists}
    \cup {[t |-> "Context", c |-> c] : c \in CodecContexts}

NoValue == [t |-> "none"]

NoInput == [t |-> "none", null |-> TRUE, mem |-> <<>>, len |-> 0, malformed |-> FALSE]

\* Response::byte_len
response_byte_len(v) ==
    IF v.t = "String" THEN text_byte_len(v.s) ELSE wake_word_byte_len

\* Message::byte_len: the exact serialized length of the value
message_byte_len(v) == Len(encode(v))

\* vec![0; value.byte_len()] with the encoding written at its start
serialized_buffer(v, byte_len) ==
    encode(v) \o [i \in 1..(byte_len - Len(encode(v))) |-> 0]

\* serialize(value, len_out), with the value's byte_len: encode_into_slice
\* fails when the buffer is shorter than the encoding
Serialize ==
    /\ codec_pc = "idle"
    /\ \E via \in {"Response", "Message"} :
        \E v \in IF via = "Response" THEN ResponseValues ELSE MessageValues :
            LET byte_len == IF via = "Response" THEN response_byte_len(v)
                            ELSE message_byte_len(v)
            IN /\ codec_value' = v
               /\ IF byte_len < Len(encode(v))
                  THEN /\ codec_pc' = "serialize_failed"
                       /\ codec_in' = NoInput
                  ELSE /\ codec_pc' = "serialized"
                       /\ codec_in' = [t |-> v.t, null |-> FALSE,
                                       mem |-> serialized_buffer(v, byte_len),
                                       len |-> Len(encode(v)), malformed |-> FALSE]
    /\ UNCHANGED codec_result
    /\ UNCHANGED OutsideCodec

\* deserialize(ptr, written_len) on the buffer serialize returned
Deserialize ==
    /\ codec_pc = "serialized"
    /\ codec_result' = deserialize(codec_in.t, codec_in.null, codec_in.mem, codec_in.len)
    /\ codec_pc' = "deserialized"
    /\ UNCHANGED <<codec_value, codec_in>>
    /\ UNCHANGED OutsideCodec

\* seq with its k-th element replaced by x
Patched(seq, k, x) == [i \in 1..Len(seq) |-> IF i = k THEN x ELSE seq[i]]

\* What the host may pass to deserialize for a value v of the expected type:
\* a null pointer; the encoding cut short (the rest of the encoding, and one
\* more byte, lie behind it in memory); the encoding with a byte that is no
\* UTF-8 in its first string, with an invalid bool, or with a first length
\* of 2^64 - 1; and the intact encoding.
RawInputs(v) ==
    LET enc == encode(v)
        mem == Append(enc, 1)
        In(null, m, len, malformed) ==
            [t |-> v.t, null |-> null, mem |-> m, len |-> len, malformed |-> malformed]
    IN {In(TRUE, <<>>, len, TRUE) : len \in {0, Len(enc)}}
       \cup {In(FALSE, mem, len, TRUE) : len \in 0..(Len(enc) - 1)}
       \cup (IF v.t \in {"String", "Context"} /\ enc[1] > 0
             THEN {In(FALSE, Patched(mem, 9, 255), Len(enc), TRUE)} ELSE {})
       \cup (IF v.t = "Detection"
             THEN {In(FALSE, Patched(mem, 1, 2), Len(enc), TRUE)} ELSE {})
       \cup (IF v.t # "Detection"
             THEN {In(FALSE, [i \in 1..Len(mem) |-> IF i <= 8 THEN 255 ELSE mem[i]],
                      Len(enc), TRUE)}
             ELSE {})
       \cup {In(FALSE, mem, Len(enc), FALSE)}

\* deserialize(ptr, len) on what the host passes
DeserializeRaw ==
    /\ codec_pc = "idle"
    /\ \E v \in ResponseValues \cup MessageValues :
        \E input \in RawInputs(v) :
            /\ codec_in' = input
            /\ codec_result' = deserialize(input.t, input.null, input.mem, input.len)
    /\ codec_pc' = "decoded_raw"
    /\ codec_value' = NoValue
    /\ UNCHANGED OutsideCodec

\* the result is dropped
CodecReset ==
    /\ codec_pc # "idle"
    /\ codec_pc' = "idle"
    /\ codec_value' = NoValue
    /\ codec_in' = NoInput
    /\ codec_result' = DecErr(0)
    /\ UNCHANGED OutsideCodec

CodecStart ==
    /\ codec_pc = "idle"
    /\ codec_value = NoValue
    /\ codec_in = NoInput
    /\ codec_result = DecErr(0)

IdleCodec == CodecStart

NextCodec ==
    \/ Serialize
    \/ Deserialize
    \/ DeserializeRaw
    \/ CodecReset

----------------------------------------------------------------------------
(* api.rs / lib.rs: init_context and free_rust_ptr                         *)

new_context_PathAsTranscript(model_path, wake_words) ==
    [t |-> "Context",
     c |-> [model_path |-> model_path, wake_words |-> wake_words,
            transcript |-> model_path]]

\* Context { model_path, wake_words, transcript: String::with_capacity(1024) }
new_context(model_path, wake_words) ==
    [t |-> "Context",
     c |-> [model_path |-> model_path, wake_words |-> wake_words,
            transcript |-> <<>>]]

\* serialize(ctx, ctx_len_out): the buffer is returned to the host and the
\* number of bytes written goes to *ctx_len_out
ContextReturned(mp, ww, ctx) ==
    /\ heap' = Append(heap, Allocation("Context", message_byte_len(ctx),
                                       encode(ctx), "host"))
    /\ ffi_call' = [fn |-> "init_context", outcome |-> "returned",
                    ptr |-> Len(heap) + 1, len |-> Len(encode(ctx)),
                    buf |-> serialized_buffer(ctx, message_byte_len(ctx)),
                    model_path |-> mp, wake_words |-> ww,
                    msg_type |-> 0, nulls |-> {}]

\* init_context once both deserialize calls have returned p and w:
\* `.map_err(|e| error!("{e}")).unwrap()` panics on an Err
InitContextWith(mp, ww, p, w) ==
    IF p.st # "ok" \/ w.st # "ok"
    THEN /\ heap' = heap
         /\ ffi_call' = [fn |-> "init_context", outcome |-> "panicked",
                         ptr |-> 0, len |-> 0, buf |-> <<>>,
                         model_path |-> mp, wake_words |-> ww,
                         msg_type |-> 0, nulls |-> {}]
    ELSE ContextReturned(mp, ww, new_context(p.val.s, w.val.v))

\* init_context(model_path, model_path_len, wake_words, wake_words_len,
\* ctx_len_out), on two buffers of the host
InitContext ==
    /\ msg_resp.outcome # "panicked"
    /\ ffi_call.outcome # "panicked"
    /\ Len(heap) < MaxMsgCalls
    /\ \E mp \in MsgPayloads, ww \in MsgPayloads :
        InitContextWith(mp, ww,
            deserialize("String", FALSE, mp, Len(mp)),
            deserialize("VecString", FALSE, ww, Len(ww)))
    /\ UNCHANGED <<msg_resp, AUDIO_DATA>>
    /\ UNCHANGED legacyVars
    /\ UNCHANGED OutsideMsg

\* free_rust_ptr(ptr, len)
FreeRustPtr ==
    /\ msg_resp.outcome # "panicked"
    /\ ffi_call.outcome # "panicked"
    /\ FreeCalled("free_rust_ptr")
    /\ UNCHANGED <<msg_resp, AUDIO_DATA>>
    /\ UNCHANGED legacyVars
    /\ UNCHANGED OutsideMsg

NextFfi ==
    \/ InitContext
    \/ FreeRustPtr
    \/ FreeResponse

----------------------------------------------------------------------------
(* lib.rs: transcribe_speech                                               *)

\* the Contexts the host passes, encoded, and one buffer that is cut short
LibContexts ==
    [model_path : {<<97>>}, wake_words : {<<>>, << <<66>>, <<97>> >>},
     transcript : {<<>>, <<97>>}]

LibCtxBuffers ==
    {encode([t |-> "Context", c |-> c]) : c \in LibContexts}
    \cup {<<1, 0, 0, 0>>}

LibTimeouts == {0, 3000}

NoRet == [buf |-> <<>>, len |-> 0]

\* deserialize::<Context>(ctx, ctx_len) for each buffer the host passes
LibDeserialized ==
    [b \in LibCtxBuffers |-> deserialize("Context", FALSE, b, Len(b))]

\* the decoded Context of the call
lib_ctx == LibDeserialized[lib_args.ctx].val.c

transcript_push_str_Front(transcript, text) == text \o transcript

\* transcript.push_str(&text)
transcript_push_str(transcript, text) == transcript \o text

\* deserialize(ctx, ctx_len), WhisperContext::new_with_params and
\* create_state, each unwrapped; then listen_for_duration builds and starts
\* the stream
LibCallBegin ==
    /\ lib_pc = "called"
    /\ \E loaded \in BOOLEAN :
        IF LibDeserialized[lib_args.ctx].st # "ok" \/ ~loaded
        THEN /\ lib_pc' = "panicked"
             /\ UNCHANGED <<lib_stream, lib_channels>>
        ELSE /\ lib_pc' = "listening"
             /\ lib_stream' = "running"
             /\ lib_channels' \in {1, 2}
    /\ UNCHANGED <<lib_next, audio_data_ch, lib_sends>>
    /\ UNCHANGED <<lib_args, accumulator, lib_transcript, lib_windows, lib_ret>>
    /\ UNCHANGED OutsideCall

\* accumulate_audio_data, called once listen_for_duration has returned and
\* dropped the stream: its thread drains audio_data_rx with try_recv, sends
\* everything it got as one Vec and ends
AccumulateAudioData ==
    /\ lib_pc = "listening"
    /\ lib_stream = "dropped"
    /\ accumulator' = Append(accumulator, ConcatAll(audio_data_ch))
    /\ audio_data_ch' = <<>>
    /\ lib_pc' = "looping"
    /\ UNCHANGED <<lib_stream, lib_channels, lib_next, lib_sends>>
    /\ UNCHANGED <<lib_args, lib_transcript, lib_windows, lib_ret>>
    /\ UNCHANGED OutsideCall

\* one iteration of `while let Ok(audio_data) = &accumulator.recv()`:
\* detect_wake_words and transcribe, each unwrapped; the text is appended
\* whatever the wake-word check returned
LibProcessWindow ==
    /\ lib_pc = "looping"
    /\ accumulator # <<>>
    /\ accumulator' = Tail(accumulator)
    /\ \E detect \in InferResults, full \in InferResults, text \in MsgTranscripts :
        IF detect = "err" \/ full = "err"
        THEN /\ lib_pc' = "panicked"
             /\ UNCHANGED <<lib_transcript, lib_windows>>
        ELSE /\ lib_pc' = lib_pc
             /\ lib_transcript' = transcript_push_str(lib_transcript, as_bytes(text))
             /\ lib_windows' = Append(lib_windows, as_bytes(text))
    /\ UNCHANGED <<lib_args, lib_ret>>
    /\ UNCHANGED libVars
    /\ UNCHANGED OutsideCall

\* the value transcribe_speech serializes: ctx with its transcript replaced
returned_context(ctx, transcript) ==
    [t |-> "Context", c |-> [ctx EXCEPT !.transcript = transcript]]

\* start_time.elapsed() > timeout at the top of the loop: at once when
\* timeout_ms is 0, otherwise after recv has failed on the closed channel
\* until the time is up; then ctx.transcript = transcript and serialize
LibReturn ==
    /\ lib_pc = "looping"
    /\ accumulator = <<>> \/ lib_args.timeout_ms = 0
    /\ lib_pc' = "returned"
    /\ lib_ret' =
        [buf |-> serialized_buffer(returned_context(lib_ctx, lib_transcript),
                    message_byte_len(returned_context(lib_ctx, lib_transcript))),
         len |-> Len(encode(returned_context(lib_ctx, lib_transcript)))]
    /\ UNCHANGED <<lib_args, accumulator, lib_transcript, lib_windows>>
    /\ UNCHANGED libVars
    /\ UNCHANGED OutsideCall

CallStart ==
    /\ lib_pc = "called"
    /\ lib_args \in [ctx : LibCtxBuffers, timeout_ms : LibTimeouts]
    /\ accumulator = <<>>
    /\ lib_transcript = <<>>
    /\ lib_windows = <<>>
    /\ lib_ret = NoRet

IdleCall ==
    /\ lib_pc = "none"
    /\ lib_args = [ctx |-> <<>>, timeout_ms |-> 0]
    /\ accumulator = <<>>
    /\ lib_transcript = <<>>
    /\ lib_windows = <<>>
    /\ lib_ret = NoRet

NextCall ==
    \/ LibCallBegin
    \/ LibCallback
    \/ LibListenEnd
    \/ AccumulateAudioData
    \/ LibProcessWindow
    \/ LibReturn

----------------------------------------------------------------------------
(* exaple.rs: stereo_to_mono and resample_to_16k                           *)

\* longest recording
MaxSamples == 4

\* sample values, in units of 1/6 of a quantum: every sum of up to three of
\* them divides by 1, 2 and 3 without a remainder, so the f32 division of the
\* code is exact on them
SampleValues == {-6, 0, 12}

ChannelCounts == {1, 2, 3}

SampleRates == {8000, 16000, 48000}

\* samples.chunks(n): consecutive chunks of n samples, the last one shorter
\* when Len(samples) is not a multiple of n
chunks(samples, n) ==
    [k \in 1..((Len(samples) + n - 1) \div n) |->
        SubSeq(samples, (k - 1) * n + 1,
               IF k * n < Len(samples) THEN k * n ELSE Len(samples))]

\* frame.iter().copied().sum::<f32>()
RECURSIVE sum(_)
sum(frame) == IF frame = <<>> THEN 0 ELSE frame[1] + sum(Tail(frame))

stereo_to_mono_FirstChannel(samples, channels) ==
    [k \in 1..Len(chunks(samples, channels)) |-> chunks(samples, channels)[k][1]]

\* stereo_to_mono(samples, channels)
stereo_to_mono(samples, channels) ==
    IF channels = 1 THEN samples
    ELSE [k \in 1..Len(chunks(samples, channels)) |->
            sum(chunks(samples, channels)[k]) \div channels]

\* what Samplerate::process returns is the converter's business: only its
\* having run is recorded
Converted(input, original_rate) ==
    [samples |-> <<>>, converter |-> TRUE, length_from |-> Len(input),
     rate_from |-> original_rate]

resample_to_16k_Always(input, original_rate) == Converted(input, original_rate)

\* resample_to_16k(input, original_rate)
resample_to_16k(input, original_rate) ==
    IF original_rate = 16000
    THEN [samples |-> input, converter |-> FALSE, length_from |-> Len(input),
          rate_from |-> original_rate]
    ELSE Converted(input, original_rate)

NotResampled ==
    [samples |-> <<>>, converter |-> FALSE, length_from |-> 0, rate_from |-> 0]

\* let mono = stereo_to_mono(&collected, channels)
StereoToMono ==
    /\ ex_pc = "collected"
    /\ mono' = stereo_to_mono(collected, ex_channels)
    /\ ex_pc' = "mono"
    /\ UNCHANGED <<collected, ex_channels, sample_rate, resampled>>
    /\ UNCHANGED OutsideExample

\* let resampled = resample_to_16k(&mono, sample_rate as usize)
ResampleTo16k ==
    /\ ex_pc = "mono"
    /\ resampled' = resample_to_16k(mono, sample_rate)
    /\ ex_pc' = "resampled"
    /\ UNCHANGED <<collected, ex_channels, sample_rate, mono>>
    /\ UNCHANGED OutsideExample

ExampleStart ==
    /\ ex_pc = "collected"
    /\ collected \in UNION {[1..n -> SampleValues] : n \in 0..MaxSamples}
    /\ ex_channels \in ChannelCounts
    /\ sample_rate \in SampleRates
    /\ mono = <<>>
    /\ resampled = NotResampled

IdleExample ==
    /\ ex_pc = "none"
    /\ collected = <<>>
    /\ ex_channels = 1
    /\ sample_rate = 16000
    /\ mono = <<>>
    /\ resampled = NotResampled

NextExample ==
    \/ StereoToMono
    \/ ResampleTo16k

----------------------------------------------------------------------------
(* Inference calls in flight.  legacy/state.rs: load_model, set_wake_words, *)
(* detect_wake_words and transcribe called from several threads, step by   *)
(* step through the MODEL_STATE and WAKE_WORDS mutexes.  api.rs: the        *)
(* session's transcribe_audio_data on the model that process owns.          *)

\* number of threads that call into legacy/state.rs
NumThreads == 2

Threads == 1..NumThreads

ThreadIdle == [op |-> "none", pc |-> "idle"]

\* a variant of MutexFree that lets every thread in
MutexFree_Always(holder) == TRUE

\* Mutex::lock returns once no thread holds the mutex
MutexFree(holder) == holder = 0

\* a thread calls one of the functions; audio_data may be empty
ThreadCall(t) ==
    /\ thr[t].pc = "idle"
    /\ \E op \in {"load_model", "set_wake_words", "detect_wake_words", "transcribe"},
          audio_empty \in BOOLEAN :
        thr' = [thr EXCEPT ![t] =
            CASE op = "load_model" -> [op |-> op, pc |-> "lock_model_store"]
              [] op = "set_wake_words" -> [op |-> op, pc |-> "lock_wake_words_set"]
              [] op = "detect_wake_words" ->
                    [op |-> op,
                     pc |-> IF audio_empty THEN "lock_wake_words_only"
                            ELSE "lock_wake_words"]
              [] op = "transcribe" ->
                    IF audio_empty THEN ThreadIdle ELSE [op |-> op, pc |-> "lock_model"]]
    /\ UNCHANGED <<model_lock, wake_words_lock, session_pc, in_flight>>
    /\ UNCHANGED legacyVars
    /\ UNCHANGED OutsideInfer

\* WAKE_WORDS.lock() in set_wake_words and detect_wake_words
ThreadLockWakeWords(t) ==
    /\ thr[t].pc \in {"lock_wake_words", "lock_wake_words_only", "lock_wake_words_set"}
    /\ MutexFree(wake_words_lock)
    /\ wake_words_lock' = t
    /\ thr' = [thr EXCEPT ![t].pc =
                  IF thr[t].pc = "lock_wake_words" THEN "lock_model"
                  ELSE "unlock_wake_words"]
    /\ IF thr[t].pc = "lock_wake_words_set"
       THEN \E words \in {<<>>, << <<"a">> >>} : WAKE_WORDS' = words
       ELSE UNCHANGED WAKE_WORDS
    /\ UNCHANGED <<model_lock, session_pc, in_flight>>
    /\ UNCHANGED <<MODEL_STATE, legacy_call>>
    /\ UNCHANGED OutsideInfer

\* MODEL_STATE.lock() in load_model and run_model; run_model then starts
\* state.full(..) if a model is loaded
ThreadLockModel(t) ==
    /\ thr[t].pc \in {"lock_model", "lock_model_store"}
    /\ MutexFree(model_lock)
    /\ model_lock' = t
    /\ IF thr[t].pc = "lock_model_store"
       THEN /\ MODEL_STATE' = "Some"
            /\ thr' = [thr EXCEPT ![t].pc = "unlock_model"]
            /\ UNCHANGED in_flight
       ELSE IF MODEL_STATE = "None"
       THEN /\ thr' = [thr EXCEPT ![t].pc = "unlock_model"]
            /\ UNCHANGED <<MODEL_STATE, in_flight>>
       ELSE /\ thr' = [thr EXCEPT ![t].pc = "full"]
            /\ in_flight' = [in_flight EXCEPT !.MODEL_STATE = @ \cup {t}]
            /\ UNCHANGED MODEL_STATE
    /\ UNCHANGED <<wake_words_lock, session_pc>>
    /\ UNCHANGED <<WAKE_WORDS, legacy_call>>
    /\ UNCHANGED OutsideInfer

\* state.full(..) returns (Ok or Err) in run_model
ThreadFull(t) ==
    /\ thr[t].pc = "full"
    /\ in_flight' = [in_flight EXCEPT !.MODEL_STATE = @ \ {t}]
    /\ thr' = [thr EXCEPT ![t].pc = "unlock_model"]
    /\ UNCHANGED <<model_lock, wake_words_lock, session_pc>>
    /\ UNCHANGED legacyVars
    /\ UNCHANGED OutsideInfer

\* a variant of ThreadUnlockModel in which run_model's error return keeps the
\* MODEL_STATE guard
ThreadUnlockModel_KeepOnErr(t) ==
    /\ thr[t].pc = "unlock_model"
    /\ model_lock' = IF thr[t].op # "load_model" /\ MODEL_STATE = "None"
                     THEN model_lock ELSE 0
    /\ thr' = [thr EXCEPT ![t] =
                  IF thr[t].op = "detect_wake_words"
                  THEN [thr[t] EXCEPT !.pc = "unlock_wake_words"]
                  ELSE ThreadIdle]
    /\ UNCHANGED <<wake_words_lock, session_pc, in_flight>>
    /\ UNCHANGED legacyVars
    /\ UNCHANGED OutsideInfer

\* the MODEL_STATE guard is dropped: load_model and run_model return
ThreadUnlockModel(t) ==
    /\ thr[t].pc = "unlock_model"
    /\ model_lock' = 0
    /\ thr' = [thr EXCEPT ![t] =
                  IF thr[t].op = "detect_wake_words"
                  THEN [thr[t] EXCEPT !.pc = "unlock_wake_words"]
                  ELSE ThreadIdle]
    /\ UNCHANGED <<wake_words_lock, session_pc, in_flight>>
    /\ UNCHANGED legacyVars
    /\ UNCHANGED OutsideInfer

\* the WAKE_WORDS guard is dropped: set_wake_words and detect_wake_words return
ThreadUnlockWakeWords(t) ==
    /\ thr[t].pc = "unlock_wake_words"
    /\ wake_words_lock' = 0
    /\ thr' = [thr EXCEPT ![t] = ThreadIdle]
    /\ UNCHANGED <<model_lock, session_pc, in_flight>>
    /\ UNCHANGED legacyVars
    /\ UNCHANGED OutsideInfer

\* api.rs transcribe_audio_data: model.full(..) starts, in detect_wake_words
\* for a new window and then in transcribe
SessionInferBegin ==
    /\ session_pc \in {"window", "detected"}
    /\ session_pc' = IF session_pc = "window" THEN "detecting" ELSE "transcribing"
    /\ in_flight' = [in_flight EXCEPT !.session = @ \cup {session_pc'}]
    /\ UNCHANGED <<model_lock, wake_words_lock, thr>>
    /\ UNCHANGED legacyVars
    /\ UNCHANGED OutsideInfer

\* model.full(..) returns; an Err is unwrapped by process
SessionInferEnd ==
    /\ session_pc \in {"detecting", "transcribing"}
    /\ in_flight' = [in_flight EXCEPT !.session = @ \ {session_pc}]
    /\ \E result \in InferResults :
        session_pc' = IF result = "err" THEN "panicked"
                      ELSE IF session_pc = "detecting" THEN "detected"
                      ELSE "window"
    /\ UNCHANGED <<model_lock, wake_words_lock, thr>>
    /\ UNCHANGED legacyVars
    /\ UNCHANGED OutsideInfer

InferStart ==
    /\ model_lock = 0
    /\ wake_words_lock = 0
    /\ thr = [t \in Threads |-> ThreadIdle]
    /\ session_pc = "window"
    /\ in_flight = [MODEL_STATE |-> {}, session |-> {}]

IdleInfer ==
    /\ model_lock = 0
    /\ wake_words_lock = 0
    /\ thr = [t \in Threads |-> ThreadIdle]
    /\ session_pc = "panicked"
    /\ in_flight = [MODEL_STATE |-> {}, session |-> {}]

NextInfer ==
    \/ \E t \in Threads : ThreadCall(t)
    \/ \E t \in Threads : ThreadLockWakeWords(t)
    \/ \E t \in Threads : ThreadLockModel(t)
    \/ \E t \in Threads : ThreadFull(t)
    \/ \E t \in Threads : ThreadUnlockModel(t)
    \/ \E t \in Threads : ThreadUnlockWakeWords(t)
    \/ SessionInferBegin
    \/ SessionInferEnd

----------------------------------------------------------------------------
(* state.rs: Virgil::listen                                                *)

\* number of callbacks the audio thread makes while the stream lives
MaxVirgilCallbacks == 3

\* lengths of the buffers the driver delivers
VirgilDataLens == {0, 1, 2}

\* data.chunks(channels).next(): the first chunk, absent when data is empty
first_chunk_len(data_len, channels) ==
    IF data_len = 0 THEN None
    ELSE IF data_len < channels THEN data_len ELSE channels

\* Virgil::transcribe's Ok value for the segments' text: transcript.trim()
virgil_transcribe(raw) == trim(raw)

\* Virgil::detect_wake_words: the model runs when audio_data is not empty
virgil_detect_wake_words(text, wake_words, audio_len) ==
    IF audio_len # 0
    THEN detect_wake_words(virgil_transcribe(text), wake_words)
    ELSE FALSE

\* the callback's result once detect_wake_words has returned Ok(detected)
AfterDetection(detected) ==
    IF detected
    THEN \* process_audio_data runs the model a second time, then sends
         \E r \in InferResults :
            IF r = "err"
            THEN /\ virgil_stream' = "panicked"
                 /\ text_ch' = text_ch
            ELSE \E t \in Transcripts :
                    /\ virgil_stream' = virgil_stream
                    /\ text_ch' = Append(text_ch, virgil_transcribe(t))
    ELSE /\ virgil_stream' = virgil_stream
         /\ text_ch' = text_ch

\* the data callback built in listen: process_audio_data(..).unwrap(), run by
\* the audio thread; the receiver lives in listen's frame, so send returns Ok
VirgilCallback ==
    /\ virgil_stream = "playing"
    /\ virgil_calls < MaxVirgilCallbacks
    /\ virgil_calls' = virgil_calls + 1
    /\ \E data_len \in VirgilDataLens, channels \in {1, 2} :
        IF first_chunk_len(data_len, channels) = None
        THEN UNCHANGED <<virgil_stream, text_ch, inference_on>>
        ELSE /\ inference_on' = inference_on \cup {"audio_callback"}
             /\ \E r \in InferResults :
                 IF r = "err"
                 THEN /\ virgil_stream' = "panicked"
                      /\ text_ch' = text_ch
                 ELSE \E t \in Transcripts :
                        AfterDetection(virgil_detect_wake_words(
                            t, CtxWakeWords, first_chunk_len(data_len, channels)))
    /\ UNCHANGED virgil_transcript
    /\ UNCHANGED OutsideVirgil

\* one iteration of `for text in receiver`, run by the caller of listen
VirgilReceive ==
    /\ virgil_stream # "none"
    /\ text_ch # <<>>
    /\ virgil_transcript' = virgil_transcript \o Head(text_ch)
    /\ text_ch' = Tail(text_ch)
    /\ UNCHANGED <<virgil_stream, virgil_calls, inference_on>>
    /\ UNCHANGED OutsideVirgil

\* `for text in receiver` ends when every Sender is gone and the channel is
\* empty; then listen returns Ok(()) and drops the stream.  The only Sender
\* lives in the data callback, which the stream owns: it is dropped when the
\* callback's panic unwinds the audio thread (where the platform unwinds),
\* and otherwise only by the drop of the stream at the end of listen itself.
VirgilReturn ==
    /\ virgil_stream = "panicked"
    /\ text_ch = <<>>
    /\ virgil_stream' = "returned"
    /\ UNCHANGED <<virgil_calls, text_ch, virgil_transcript, inference_on>>
    /\ UNCHANGED OutsideVirgil

VirgilStart ==
    /\ virgil_stream = "playing"
    /\ virgil_calls = 0
    /\ text_ch = <<>>
    /\ virgil_transcript \in {<<>>, <<"o", "k", " ">>}
    /\ inference_on = {}

IdleVirgil ==
    /\ virgil_stream = "none"
    /\ virgil_calls = 0
    /\ text_ch = <<>>
    /\ virgil_transcript = <<>>
    /\ inference_on = {}

NextVirgil ==
    \/ VirgilCallback
    \/ VirgilReceive
    \/ VirgilReturn

----------------------------------------------------------------------------
(* The host of a session started by api.rs transcribe_speech               *)

\* The host asks the session to stop, or is torn down.  transcribe_speech
\* returns nothing the host could stop the session with, the module exports
\* no stop function, and neither task reads a stop flag: the request changes
\* nothing in the session.
HostStop ==
    /\ ~stop_requested
    /\ stop_requested' = TRUE
    /\ UNCHANGED api_start
    /\ UNCHANGED OutsideHost

\* no transcribe_speech call is starting up
NoStart == [pc |-> "none", failed |-> "nothing"]

\* a start-up step returned Err: `.map_err(|e| error!("{e}")).unwrap()`
\* panics inside transcribe_speech, before anything later is set up
StartPanicked(step) ==
    /\ api_start' = [pc |-> "panicked", failed |-> step]
    /\ UNCHANGED pipeVars

\* api.rs transcribe_speech up to the spawning of its tasks: the Context is
\* decoded, the model initialised and the microphone stream built
TranscribeSpeechBegin ==
    /\ api_start.pc = "called"
    /\ \E ctx \in LibCtxBuffers, model \in InferResults, mic \in InferResults :
        IF LibDeserialized[ctx].st # "ok" THEN StartPanicked("decode")
        ELSE IF model = "err" THEN StartPanicked("model")
        ELSE IF mic = "err" THEN StartPanicked("microphone")
        ELSE /\ api_start' = [pc |-> "started", failed |-> "nothing"]
             /\ listen_duration_ms' \in ListenDurations
             /\ mic_state' = "built"
             /\ rx_dropped' = FALSE
             /\ proc_pc' = "polling"
             /\ UNCHANGED <<next_chunk, input_audio, accumulated_audio,
                            received, windows, dart_posts>>
    /\ UNCHANGED stop_requested
    /\ UNCHANGED OutsideHost_NoPipe

StartCalled ==
    /\ stop_requested = FALSE
    /\ api_start = [pc |-> "called", failed |-> "nothing"]

IdleHost ==
    /\ stop_requested = FALSE
    /\ api_start = NoStart

----------------------------------------------------------------------------
(* The specifications                                                      *)

\* the session after the model and the stream are set up and the tasks spawned
InitPipe ==
    /\ listen_duration_ms \in ListenDurations
    /\ mic_state = "built"
    /\ next_chunk = 0
    /\ input_audio = <<>>
    /\ rx_dropped = FALSE
    /\ accumulated_audio = <<>>
    /\ proc_pc = "polling"
    /\ received = <<>>
    /\ windows = <<>>
    /\ dart_posts = <<>>

\* no session of the entry point is running
IdlePipe ==
    /\ listen_duration_ms = 0
    /\ mic_state = "dropped"
    /\ next_chunk = 0
    /\ input_audio = <<>>
    /\ rx_dropped = TRUE
    /\ accumulated_audio = <<>>
    /\ proc_pc = "none"
    /\ received = <<>>
    /\ windows = <<>>
    /\ dart_posts = <<>>

IdleLowPower ==
    /\ blocking_send_panics = TRUE
    /\ duration_ch = [mic |-> <<>>, process |-> <<>>]
    /\ listen_duration = 0
    /\ process_duration = 0
    /\ cur = NoCall

\* api.rs transcribe_speech
InitApi == InitPipe /\ IdleLowPower /\ IdleLegacy /\ IdleLib /\ IdleMsg /\ IdleCodec /\ IdleInfer /\ IdleHost /\ IdleVirgil /\ IdleCall /\ IdleExample

NextApi ==
    \/ MicPlay
    \/ InputStreamListener
    \/ Process
    \/ ProcessSleep
    \/ ProcessWake

SpecApi == InitApi /\ [][NextApi]_vars

\* api.rs transcribe_speech with the audio thread delivering chunks and the
\* runtime scheduling the listener task and the process task
SpecApiFair ==
    /\ InitApi
    /\ [][NextApi]_vars
    /\ WF_vars(MicPlay)
    /\ WF_vars(InputStreamListener)
    /\ WF_vars(Process)
    /\ WF_vars(ProcessSleep)
    /\ WF_vars(ProcessWake)

\* api.rs transcribe_speech with its host; the runtime keeps scheduling the
\* listener task and the process task
NextApiHost ==
    \/ NextApi
    \/ HostStop

\* api.rs transcribe_speech from the call on
NextApiStart ==
    \/ TranscribeSpeechBegin
    \/ NextApi

InitApiStart ==
    /\ IdlePipe /\ IdleLowPower /\ IdleLegacy /\ IdleLib /\ IdleMsg /\ IdleCodec
    /\ IdleInfer /\ StartCalled /\ IdleVirgil /\ IdleCall /\ IdleExample

SpecApiStart == InitApiStart /\ [][NextApiStart]_vars

SpecApiHost ==
    /\ InitApi
    /\ [][NextApiHost]_vars
    /\ WF_vars(MicPlay)
    /\ WF_vars(Process)
    /\ WF_vars(ProcessSleep)
    /\ WF_vars(ProcessWake)

\* utils.rs listen_low_power_mode
InitLowPower ==
    /\ InitPipe
    /\ blocking_send_panics \in BOOLEAN
    /\ duration_ch = [mic |-> <<>>, process |-> <<>>]
    /\ listen_duration = listen_duration_ms
    /\ process_duration = listen_duration_ms
    /\ cur = NoCall
    /\ IdleLegacy
    /\ IdleLib
    /\ IdleMsg
    /\ IdleCodec
    /\ IdleInfer /\ IdleHost /\ IdleVirgil /\ IdleCall /\ IdleExample

NextLowPower ==
    \/ MicPlay
    \/ InputStreamListener
    \/ ListenToMic
    \/ ProcessAudio
    \/ ClosureBlockingSend
    \/ ClosureTranscribe
    \/ ProcessAudioSleep
    \/ ProcessWake

SpecLowPower == InitLowPower /\ [][NextLowPower]_vars

\* listen_low_power_mode with the runtime scheduling both tasks; the audio
\* driver alone decides when a chunk arrives
SpecLowPowerFair ==
    /\ InitLowPower
    /\ [][NextLowPower]_vars
    /\ WF_vars(MicPlay)
    /\ WF_vars(ListenToMic)
    /\ WF_vars(ProcessAudio)
    /\ WF_vars(ClosureBlockingSend)
    /\ WF_vars(ClosureTranscribe)
    /\ WF_vars(ProcessAudioSleep)
    /\ WF_vars(ProcessWake)

\* legacy/state.rs
InitLegacy == IdlePipe /\ IdleLowPower /\ LegacyStart /\ IdleLib /\ IdleMsg /\ IdleCodec /\ IdleInfer /\ IdleHost /\ IdleVirgil /\ IdleCall /\ IdleExample

SpecLegacy == InitLegacy /\ [][NextLegacy]_vars

\* lib.rs listen_for_duration
InitLib == IdlePipe /\ IdleLowPower /\ IdleLegacy /\ LibStart /\ IdleMsg /\ IdleCodec /\ IdleInfer /\ IdleHost /\ IdleVirgil /\ IdleCall /\ IdleExample

SpecLib == InitLib /\ [][NextLib]_vars

\* messages.rs send_message_to_rust / free_response
InitMsg == IdlePipe /\ IdleLowPower /\ IdleLegacy /\ IdleLib /\ MsgStart /\ IdleCodec /\ IdleInfer /\ IdleHost /\ IdleVirgil /\ IdleCall /\ IdleExample

SpecMsg == InitMsg /\ [][NextMsg]_vars

\* init_context and the two free functions
SpecFfi == InitMsg /\ [][NextFfi]_vars

\* serialize / deserialize
InitCodec == IdlePipe /\ IdleLowPower /\ IdleLegacy /\ IdleLib /\ IdleMsg /\ CodecStart /\ IdleInfer /\ IdleHost /\ IdleVirgil /\ IdleCall /\ IdleExample

SpecCodec == InitCodec /\ [][NextCodec]_vars

\* inference calls in flight
InitInfer ==
    IdlePipe /\ IdleLowPower /\ LegacyStart /\ IdleLib /\ IdleMsg /\ IdleCodec /\ InferStart
    /\ IdleHost /\ IdleVirgil /\ IdleCall /\ IdleExample

SpecInfer == InitInfer /\ [][NextInfer]_vars

\* state.rs Virgil::listen
InitVirgil ==
    /\ IdlePipe /\ IdleLowPower /\ IdleLegacy /\ IdleLib /\ IdleMsg
    /\ IdleCodec /\ IdleInfer /\ IdleHost /\ VirgilStart /\ IdleCall /\ IdleExample

SpecVirgil == InitVirgil /\ [][NextVirgil]_vars

\* Virgil::listen with its caller's thread running; the audio driver alone
\* decides when a callback happens
SpecVirgilFair ==
    /\ InitVirgil
    /\ [][NextVirgil]_vars
    /\ WF_vars(VirgilReceive)
    /\ WF_vars(VirgilReturn)

\* exaple.rs: downmix and resampling of a recording
InitExample ==
    /\ IdlePipe /\ IdleLowPower /\ IdleLegacy /\ IdleLib /\ IdleMsg /\ IdleCodec
    /\ IdleInfer /\ IdleHost /\ IdleVirgil /\ IdleCall /\ ExampleStart

SpecExample == InitExample /\ [][NextExample]_vars

\* lib.rs transcribe_speech; the threads of the call keep running
InitCall ==
    /\ IdlePipe /\ IdleLowPower /\ IdleLegacy /\ IdleLib /\ IdleMsg
    /\ IdleCodec /\ IdleInfer /\ IdleHost /\ IdleVirgil /\ CallStart /\ IdleExample

SpecCall ==
    /\ InitCall
    /\ [][NextCall]_vars
    /\ WF_vars(LibCallBegin)
    /\ WF_vars(LibListenEnd)
    /\ WF_vars(AccumulateAudioData)
    /\ WF_vars(LibProcessWindow)
    /\ WF_vars(LibReturn)

----------------------------------------------------------------------------
(* Properties                                                              *)

ConsumerAlive == proc_pc \in {"polling", "sleeping"}

\* C1: the windows handed to inference so far, in order, followed by
\* accumulated_audio, are exactly the received chunks, in order: no sample
\* is dropped, duplicated or reordered.
C1_AccumulationExact ==
    extend_from_slice(ConcatAll(windows), accumulated_audio) = ChunksAudio(received)

\* C2: every window process hands to inference has exactly
\* desired_num_samples samples.
C2_WindowsHaveExactlyW ==
    \A i \in 1..Len(windows) :
        AudioLen(windows[i]) = desired_num_samples(listen_duration_ms)

\* a window made of the rest of one chunk and the start of the next has been
\* handed to inference, after a chunk longer than the window was received
C2_Witness ==
    /\ \E i \in 1..Len(windows) : Len(windows[i]) >= 2
    /\ \E j \in 1..Len(received) :
          received[j].len > desired_num_samples(listen_duration_ms)

\* C3: after each received chunk has been processed, accumulated_audio holds
\* at most desired_num_samples samples.
C3_BufferAtMostW ==
    ConsumerAlive =>
        AudioLen(accumulated_audio) <= desired_num_samples(listen_duration_ms)

\* C4: a transcript is delivered to the host only for a window in which a
\* wake word was detected.
C4_PostsOnlyAfterWakeWord ==
    \A i \in 1..Len(dart_posts) : dart_posts[i].detected

\* the wake words, by index, whose lower-case form occurs in the lower-cased text
Hits(text, wake_words) ==
    {i \in 1..Len(wake_words) :
        \E off \in 0..Len(text) :
            MatchesAt(to_lowercase(text), to_lowercase(wake_words[i]), off)}

FirstHit(text, wake_words) ==
    CHOOSE i \in Hits(text, wake_words) : \A j \in Hits(text, wake_words) : i <= j

DetectReturned ==
    /\ legacy_call.op = "detect_wake_words"
    /\ legacy_call.status = "ok"
    /\ ~legacy_call.audio_empty

ExampleTranscript ==
    <<"h","e","l","l","o"," ","w","a","k","e"," ","w","o","r","d"," ","t","e","s","t">>

\* C5: detect_wake_words reports detected = TRUE iff the lower-case form of
\* some wake word occurs in the lower-cased transcript; the first word of the
\* list that occurs wins and start_idx is the offset of its first occurrence
\* ("hello wake word test" with ["Wake", "Test"] gives start_idx = 6).
C5_WakeWordMatching ==
    DetectReturned =>
        LET t == to_lowercase(legacy_call.text)
            d == legacy_call.detection
            hits == Hits(legacy_call.text, WAKE_WORDS)
        IN /\ d.detected <=> hits # {}
           /\ detect_wake_words(legacy_call.text, WAKE_WORDS) <=> hits # {}
           /\ d.detected =>
                 LET w == to_lowercase(WAKE_WORDS[FirstHit(legacy_call.text, WAKE_WORDS)])
                 IN /\ MatchesAt(t, w, d.start_idx)
                    /\ \A off \in 0..(d.start_idx - 1) : ~MatchesAt(t, w, off)
           /\ (legacy_call.text = ExampleTranscript
                /\ WAKE_WORDS = << <<"W","a","k","e">>, <<"T","e","s","t">> >>)
                 => (d.detected /\ d.start_idx = 6)

\* a detection in which a later-listed wake word occurs earlier in the
\* transcript than the first-listed one that occurs
C5_Witness ==
    /\ DetectReturned
    /\ legacy_call.detection.detected
    /\ \E j \in Hits(legacy_call.text, WAKE_WORDS) :
          /\ j > FirstHit(legacy_call.text, WAKE_WORDS)
          /\ find(to_lowercase(legacy_call.text), to_lowercase(WAKE_WORDS[j]))
                < legacy_call.detection.start_idx

\* C6: on a detection, end_idx is start_idx plus the length of the matched
\* wake word.
C6_EndIdxIsEndOfMatch ==
    (DetectReturned /\ legacy_call.detection.detected) =>
        legacy_call.detection.end_idx =
            legacy_call.detection.start_idx
            + Len(WAKE_WORDS[FirstHit(legacy_call.text, WAKE_WORDS)])

\* C7: a full audio channel makes the callback drop the frame; it never
\* panics the callback or ends the stream.
C7_FullChannelKeepsStreamRunning == mic_state # "panicked_full"

\* C8: the audio callback never blocks, and its only communication is a
\* single send per invocation.
C8_CallbackSingleNonBlockingSend ==
    /\ (lib_stream = "running" /\ lib_next < MaxLibCallbacks) => ENABLED LibCallback
    /\ lib_sends <= 1

\* the closure can never return: it panicked in blocking_send, or it waits to
\* send on the process_duration channel, which only its own caller drains
ClosureStuck ==
    \/ proc_pc = "panicked_blocking"
    \/ /\ proc_pc = "send_process_reset"
       /\ Len(duration_ch.process) >= DurationChannelCapacity

\* C9: after a wake word is detected the on_accumulated closure always
\* returns; it never blocks forever on the duration channels.
C9_ClosureReturns == ~ClosureStuck

\* C10: an inference failure on one window leaves the consumer loop alive.
C10_InferenceFailureSkipsWindow == proc_pc # "panicked_infer"

\* C11: a send_message_to_rust call whose payload fails to decode or whose
\* operation fails returns normally, with *resp_type = Error (2) and a
\* pointer to the encoded ErrorResponse; it never panics.
C11_FailureReturnsErrorResponse ==
    msg_resp.failed \in {"decode", "operation"} =>
        /\ msg_resp.outcome = "returned"
        /\ msg_resp.resp_type = ResponseTypeError
        /\ msg_resp.ptr \in 1..Len(heap)
        /\ heap[msg_resp.ptr].kind = "Error"

\* C12: the buffer serialize allocates has exactly as many bytes as the
\* encoder wrote, which is the length reported to the host, so that
\* free_response(ptr, reported_len) releases the whole allocation.
C12_BufferSizeIsWrittenLength ==
    \A ptr \in 1..Len(heap) :
        /\ heap[ptr].size = heap[ptr].written
        /\ heap[ptr].holder # "freed_wrong_size"

\* C13: serialize succeeds for every message, response and Context value,
\* and deserialize of the returned buffer at the written length succeeds and
\* yields the same value, field for field, lists in the same order.
C13_CodecRoundTrip ==
    /\ codec_pc # "serialize_failed"
    /\ codec_pc = "deserialized" =>
          /\ codec_result.st = "ok"
          /\ codec_result.val = codec_value
          /\ codec_result.pos = codec_in.len

\* a Context with two different wake words has gone through serialize and
\* deserialize
C13_Witness ==
    /\ codec_pc = "deserialized"
    /\ codec_value.t = "Context"
    /\ Len(codec_value.c.wake_words) = 2
    /\ codec_value.c.wake_words[1] # codec_value.c.wake_words[2]
    /\ codec_value.c.model_path # <<>>

\* C14: deserialize returns an error, and no value, when the pointer is
\* null, the length is 0 or the first len bytes are a truncated or malformed
\* encoding of the expected type; it reads no byte at offset len or beyond.
C14_DecodeRejectsBadInput ==
    codec_pc = "decoded_raw" =>
        /\ codec_result.pos <= codec_in.len
        /\ (codec_in.null \/ codec_in.len = 0 \/ codec_in.malformed) =>
              codec_result.st = "err"

\* C15: at most one inference call is in flight on a model handle at any
\* time: the session's wake-word check and transcription never overlap, and
\* a thread runs the model of legacy/state.rs only while it holds the
\* MODEL_STATE lock.
C15_OneInferenceInFlight ==
    /\ Cardinality(in_flight.session) <= 1
    /\ Cardinality(in_flight.MODEL_STATE) <= 1
    /\ \A t \in in_flight.MODEL_STATE : model_lock = t

\* a thread runs the model while another thread waits for the MODEL_STATE
\* lock, and the session has a call in flight on its own handle
C15_Witness ==
    /\ \E t \in Threads, u \in Threads :
          /\ t \in in_flight.MODEL_STATE
          /\ u # t
          /\ thr[u].pc = "lock_model"
    /\ in_flight.session = {"transcribing"}

\* the segments of the windows handed to inference so far, in order, followed
\* by those of accumulated_audio
EmittedSegments == Flatten(windows) \o accumulated_audio

\* segment a lies before segment b in the stream the callback sent
Before(a, b) == a.id < b.id \/ (a.id = b.id /\ a.hi <= b.lo)

\* C16: chunks are appended to the accumulator in the order the callback
\* sent them, windows are evaluated in the order they were emitted, and the
\* host notifications occur in the emission order of their windows.
C16_OrderPreserved ==
    /\ \A i \in 1..Len(received), j \in 1..Len(received) :
          i < j => received[i].id < received[j].id
    /\ \A i \in 1..(Len(EmittedSegments) - 1) :
          Before(EmittedSegments[i], EmittedSegments[i + 1])
    /\ \A i \in 1..Len(dart_posts), j \in 1..Len(dart_posts) :
          i < j => dart_posts[i].window < dart_posts[j].window

\* two notifications have been posted, the second for a window made of the
\* rest of one chunk and the start of the next
C16_Witness ==
    /\ Len(dart_posts) >= 2
    /\ Len(received) >= 3
    /\ Len(windows[dart_posts[2].window]) >= 2

\* the stream no longer runs, or the consumer loop, which owns the model
\* handle, has left its loop; an end by panic counts
Stopping ==
    \/ mic_state \notin {"built", "running"}
    \/ ~ConsumerAlive

\* C17: a stop signal eventually stops the audio stream, makes the consumer
\* loop exit and releases the model handle.  Stated in its weakest reading:
\* after the signal at least one of the two eventually ends, in any way.
C17_StopEventuallyStops == stop_requested ~> Stopping

\* the stream has ended and every sender of the audio channel is dropped
StreamTerminated == mic_state = "dropped"

\* the consumer loop has returned without a panic
SessionEnded == proc_pc = "returned"

\* C18: when the audio stream terminates the consumer loop detects it and
\* the session ends; the consumer does not poll the disconnected channel
\* forever, and nothing crashes.
C18_StreamEndEndsSession == StreamTerminated ~> SessionEnded

\* C19: inference is invoked only from the consumer context, never from the
\* realtime audio callback.
C19_InferenceOnlyFromConsumer == inference_on \subseteq {"consumer"}

\* C20: every buffer the native side allocates is returned to the host, which
\* holds it until it frees it; no allocation is left that nobody holds, on
\* the error paths of send_message_to_rust included.
C20_EveryAllocationReturned ==
    \A ptr \in 1..Len(heap) : heap[ptr].holder \in {"host", "freed", "freed_wrong_size"}

\* C21: free_rust_ptr and free_response change nothing when ptr is null,
\* whatever len is; with a pointer the host holds they reclaim exactly that
\* one allocation and leave every other one as it was.
C21_FreeReclaimsExactlyOne ==
    [][ffi_call'.fn \in {"free_rust_ptr", "free_response"} =>
            IF ffi_call'.ptr = 0
            THEN heap' = heap
            ELSE /\ ffi_call'.ptr \in 1..Len(heap)
                 /\ heap[ffi_call'.ptr].holder = "host"
                 /\ Len(heap') = Len(heap)
                 /\ heap'[ffi_call'.ptr].holder \in {"freed", "freed_wrong_size"}
                 /\ \A q \in 1..Len(heap) :
                        q # ffi_call'.ptr => heap'[q] = heap[q]]_vars

C21_Witness ==
    /\ ffi_call.fn = "free_rust_ptr"
    /\ ffi_call.ptr # 0
    /\ heap[ffi_call.ptr].holder = "freed"
    /\ \E q \in 1..Len(heap) : heap[q].holder = "host"

\* what the host reads behind the returned pointer, for the returned length
ReturnedBytes(call) == SubSeq(call.buf, 1, call.len)

\* the Context the two input buffers of the call describe, transcript empty
ExpectedContext(call) ==
    [model_path |-> decode_from_slice("String", call.model_path).val.s,
     wake_words |-> decode_from_slice("VecString", call.wake_words).val.v,
     transcript |-> <<>>]

\* C22: a returning init_context hands back an encoded Context whose
\* model_path and wake_words are the decoded inputs, in order, and whose
\* transcript is empty; the length written to ctx_len_out is the encoded
\* length; the buffer is a new allocation held by the host and no earlier
\* allocation is freed or changed.
C22_InitContextEncodesInputs ==
    [][(ffi_call'.fn = "init_context" /\ ffi_call'.outcome = "returned") =>
            /\ decode_from_slice("Context", ReturnedBytes(ffi_call')).st = "ok"
            /\ decode_from_slice("Context", ReturnedBytes(ffi_call')).val.c
                    = ExpectedContext(ffi_call')
            /\ decode_from_slice("Context", ReturnedBytes(ffi_call')).pos
                    = ffi_call'.len
            /\ heap' = Append(heap, heap'[Len(heap')])
            /\ ffi_call'.ptr = Len(heap')
            /\ heap'[ffi_call'.ptr].holder = "host"
            /\ heap'[ffi_call'.ptr].written = ffi_call'.len]_vars

C22_Witness ==
    /\ ffi_call.fn = "init_context"
    /\ ffi_call.outcome = "returned"
    /\ Len(heap) = 2
    /\ decode_from_slice("Context", ReturnedBytes(ffi_call)).val.c
            = [model_path |-> <<97>>, wake_words |-> << <<66>>, <<97>> >>,
               transcript |-> <<>>]

\* the returned buffer decodes, with the returned length, to the input's
\* model_path and wake_words and to the windows' transcripts, concatenated
ReturnedContextRight ==
    /\ decode_from_slice("Context", SubSeq(lib_ret.buf, 1, lib_ret.len)).st = "ok"
    /\ decode_from_slice("Context", SubSeq(lib_ret.buf, 1, lib_ret.len)).val.c
        = [model_path |-> lib_ctx.model_path,
           wake_words |-> lib_ctx.wake_words,
           transcript |-> Flatten(lib_windows)]

\* C23: the blocking transcribe_speech eventually returns, and what it
\* returns decodes to the input's model_path and wake_words with the
\* concatenation, in order, of the transcripts of the windows processed.
C23_TranscribeSpeechReturns ==
    /\ <>(lib_pc = "returned")
    /\ [](lib_pc = "returned" => ReturnedContextRight)

\* C24: when the model cannot be loaded the call ends in an error outcome
\* delivered to the host, with no audio stream opened and no consumer task
\* running; it does not panic.
C24_ModelLoadFailureIsReported ==
    api_start.failed = "model" =>
        /\ api_start.pc = "error_returned"
        /\ mic_state \notin {"built", "running"}
        /\ proc_pc = "none"

\* C25: transcribe and detect_wake_words of legacy/state.rs, called with
\* non-empty audio while no load_model call has succeeded, return
\* Err("Invalid model state"), no transcript and no detection, and leave
\* MODEL_STATE and WAKE_WORDS as they were.
C25_NoModelIsAnError ==
    [][(/\ legacy_call.op = "none"
        /\ legacy_call'.op \in {"transcribe", "detect_wake_words"}
        /\ ~legacy_call'.audio_empty
        /\ MODEL_STATE = "None") =>
            /\ legacy_call'.status = "err"
            /\ legacy_call'.error = "Invalid model state"
            /\ legacy_call'.text = <<>>
            /\ legacy_call'.detection = NoDetection
            /\ MODEL_STATE' = "None"
            /\ WAKE_WORDS' = WAKE_WORDS]_vars

C25_Witness ==
    /\ legacy_call.op = "detect_wake_words"
    /\ ~legacy_call.audio_empty
    /\ legacy_call.error = "Invalid model state"
    /\ MODEL_STATE = "None"
    /\ WAKE_WORDS # <<>>

\* the i-th frame of the recording
Frame(i) == SubSeq(collected, (i - 1) * ex_channels + 1, i * ex_channels)

\* C26: for an input of k complete frames of N channels stereo_to_mono
\* returns exactly k samples, the i-th being the mean of the N values of
\* frame i; for N = 1 the output equals the input.
C26_DownmixIsFrameMean ==
    (ex_pc \in {"mono", "resampled"} /\ Len(collected) % ex_channels = 0) =>
        /\ Len(mono) = Len(collected) \div ex_channels
        /\ \A i \in 1..Len(mono) : mono[i] * ex_channels = sum(Frame(i))
        /\ ex_channels = 1 => mono = collected

C26_Witness ==
    /\ ex_pc = "mono"
    /\ ex_channels = 2
    /\ collected = <<-6, 12, 12, 0>>
    /\ mono = <<3, 6>>

\* C27: when the number of samples is not a multiple of the channel count
\* the incomplete trailing frame is dropped or carried forward: no output
\* sample is computed from it, so there is one output per complete frame.
C27_NoOutputFromIncompleteFrame ==
    ex_pc \in {"mono", "resampled"} =>
        Len(mono) = Len(collected) \div ex_channels

\* C29: resample_to_16k called with original_rate = 16000 returns its
\* input, sample for sample and of the same length, and the converter does
\* not run.
C29_ResampleIdentityAt16k ==
    (ex_pc = "resampled" /\ sample_rate = 16000) =>
        /\ resampled.samples = mono
        /\ Len(resampled.samples) = Len(mono)
        /\ ~resampled.converter

C29_Witness ==
    /\ ex_pc = "resampled"
    /\ sample_rate = 16000
    /\ Len(mono) >= 2
    /\ resampled.samples = mono

\* the closure of listen_low_power_mode is running on a completed window
InClosure == proc_pc \in SendPcs \cup {"transcribe"}

C30_SplitInBounds ==
    [][(proc_pc = "polling" /\ received' # received) =>
          LET accumulated_samples == AudioLen(accumulated_audio)
              samples_to_add == Head(input_audio).len
              desired == desired_num_samples(listen_duration_ms)
          IN  accumulated_samples + samples_to_add >= desired =>
                 /\ Extra(accumulated_samples, samples_to_add, desired)
                        <= samples_to_add
                 /\ EndIdx(accumulated_samples, samples_to_add, desired)
                        <= samples_to_add
                 /\ proc_pc' # "panicked_split"]_vars

\* C31: whenever process_audio runs on_accumulated, the slice it passes is
\* the accumulated window: the buffered samples followed by the first
\* end_idx samples of the current chunk, desired_num_samples samples in all.
C31_CallbackGetsWindow ==
    [][(proc_pc = "polling" /\ Len(windows') = Len(windows) + 1) =>
          LET audio_data == Head(input_audio)
              desired == desired_num_samples(listen_duration_ms)
              end_idx == EndIdx(AudioLen(accumulated_audio), audio_data.len, desired)
              passed == windows'[Len(windows')]
          IN  /\ passed = extend_from_slice(accumulated_audio,
                                            Slice(audio_data, 0, end_idx))
              /\ AudioLen(passed) = desired]_vars

\* the closure has returned and both tasks have taken the default duration
\* back from their channels
DurationsReset ==
    /\ proc_pc \in {"polling", "sleeping"}
    /\ duration_ch.mic = <<>>
    /\ duration_ch.process = <<>>
    /\ listen_duration = listen_duration_ms
    /\ process_duration = listen_duration_ms

\* C32: once a wake word is detected in a window, the closure switches the
\* durations, sends the transcript and resets them: eventually listen_to_mic
\* and process_audio both run with listen_duration_ms again.  A window whose
\* transcription fails is not counted against the property.
C32_DurationsReturnToDefault ==
    (proc_pc = "send_mic_active") ~> (DurationsReset \/ proc_pc = "panicked_infer")

\* the last call was send_message_to_rust with three non-null pointers
MessageHandled ==
    /\ ffi_call.fn = "send_message_to_rust"
    /\ ffi_call.nulls = {}

\* C33: a send_message_to_rust call whose msg_type names no message type
\* returns an encoded ErrorResponse with *resp_type = Error; it does not
\* abort.
C33_UnknownTypeIsAnError ==
    (MessageHandled /\ ffi_call.msg_type \notin 0..5) =>
        /\ msg_resp.outcome = "returned"
        /\ msg_resp.resp_type = ResponseTypeError
        /\ msg_resp.ptr \in 1..Len(heap)
        /\ heap[msg_resp.ptr].kind = "Error"

\* C34: a send_message_to_rust call with a null msg_ptr, resp_type or
\* resp_len returns null, writes no tag and no length, allocates nothing and
\* leaves the model, the wake words and the audio data as they were, whatever
\* msg_type is.
C34_NullArgumentsChangeNothing ==
    [][(ffi_call'.fn = "send_message_to_rust" /\ ffi_call'.nulls # {}) =>
          /\ msg_resp'.outcome = "null"
          /\ msg_resp'.ptr = 0
          /\ msg_resp'.resp_type = NoResp.resp_type
          /\ msg_resp'.resp_len = NoResp.resp_len
          /\ heap' = heap
          /\ MODEL_STATE' = MODEL_STATE
          /\ WAKE_WORDS' = WAKE_WORDS
          /\ AUDIO_DATA' = AUDIO_DATA]_vars

\* a DetectWakeWords message sent with a null msg_ptr was answered with null
\* while a model and audio data were stored
C34_Witness ==
    /\ ffi_call.fn = "send_message_to_rust"
    /\ ffi_call.nulls = {"msg_ptr"}
    /\ From_u8(ffi_call.msg_type) = "DetectWakeWords"
    /\ msg_resp.outcome = "null"
    /\ MODEL_STATE = "Some"
    /\ AUDIO_DATA # <<>>
    /\ Len(heap) >= 1

\* impl Into<u8> for ResponseType, by the response struct that was encoded
TagOf(kind) ==
    CASE kind = "Text" -> ResponseTypeText
      [] kind = "WakeWord" -> ResponseTypeWakeWord
      [] kind = "Error" -> ResponseTypeError

\* C35: the tag a send_message_to_rust call writes to *resp_type names the
\* response struct encoded in the buffer it returns.
C35_TagNamesPayload ==
    (MessageHandled /\ msg_resp.outcome = "returned") =>
        msg_resp.resp_type = TagOf(heap[msg_resp.ptr].kind)

\* C36: the vector accumulate_audio_data sends holds the chunks it received,
\* in arrival order, and at least min_num_samples (EXPECTED_SAMPLE_RATE)
\* samples.
C36_AccumulatorSendsEnough ==
    [][(lib_pc = "listening" /\ lib_pc' = "looping") =>
          LET sent == accumulator'[Len(accumulator')]
          IN  /\ Len(accumulator') = Len(accumulator) + 1
              /\ sent = ConcatAll(audio_data_ch)
              /\ AudioLen(sent) >= EXPECTED_SAMPLE_RATE]_vars

\* C37: Virgil::listen eventually returns Ok, with every text the callback
\* sent appended to the transcript.
C37_ListenReturns == <>(virgil_stream = "returned" /\ text_ch = <<>>)

\* thread t is in WAKE_WORDS.lock() / MODEL_STATE.lock()
AtWakeWordsLock(t) ==
    thr[t].pc \in {"lock_wake_words", "lock_wake_words_only", "lock_wake_words_set"}

AtModelLock(t) == thr[t].pc \in {"lock_model", "lock_model_store"}

\* thread t waits for a lock that another thread holds
Blocked(t) ==
    \/ AtWakeWordsLock(t) /\ wake_words_lock # 0
    \/ AtModelLock(t) /\ model_lock # 0

\* C38: no thread asks for WAKE_WORDS while it holds MODEL_STATE, a thread
\* that has returned from its call holds no lock, and whenever calls are in
\* progress at least one of them is not waiting for a lock.
C38_NoDeadlock ==
    /\ \A t \in Threads : AtWakeWordsLock(t) => model_lock # t
    /\ \A t \in Threads :
          thr[t].pc = "idle" => (model_lock # t /\ wake_words_lock # t)
    /\ (\E t \in Threads : thr[t].pc # "idle") =>
          \E u \in Threads : thr[u].pc # "idle" /\ ~Blocked(u)

\* detect_wake_words holds WAKE_WORDS and waits for MODEL_STATE, which a
\* load_model call holds
C38_Witness ==
    \E t \in Threads, u \in Threads :
        /\ thr[t].op = "detect_wake_words" /\ thr[t].pc = "lock_model"
        /\ wake_words_lock = t
        /\ model_lock = u /\ thr[u].op = "load_model"
        /\ Blocked(t)

\* C39: a load_model call that fails returns Err and leaves MODEL_STATE and
\* WAKE_WORDS as they were; one that succeeds stores the new model.
C39_FailedLoadKeepsModel ==
    [][legacy_call'.op = "load_model" =>
          /\ WAKE_WORDS' = WAKE_WORDS
          /\ IF legacy_call'.status = "err"
             THEN MODEL_STATE' = MODEL_STATE
             ELSE MODEL_STATE' = "Some"]_vars

\* load_model has failed while a model and wake words were stored, and the
\* model is still there
C39_Witness ==
    /\ legacy_call.op = "load_model"
    /\ legacy_call.status = "err"
    /\ MODEL_STATE = "Some"
    /\ WAKE_WORDS # <<>>

\* samples that have been sent and not yet handed to inference: those in the
\* channel and those in accumulated_audio
PendingSamples == AudioLen(ChunksAudio(input_audio)) + AudioLen(accumulated_audio)

\* the audio thread delivers no further chunk although the consumer is alive
DeliveryEnded ==
    /\ ConsumerAlive
    /\ input_audio = <<>>
    /\ mic_state # "running" \/ next_chunk = MaxChunks

\* C40: whenever desired_num_samples or more samples are pending, process
\* eventually hands a further window to inference, as long as the audio
\* thread keeps delivering chunks.
C40_PendingWindowIsEmitted ==
    \A n \in 0..(2 * MaxChunks) :
        (PendingSamples >= desired_num_samples(listen_duration_ms)
             /\ Len(windows) = n)
          ~> (Len(windows) > n \/ DeliveryEnded)

====
